---- MODULE Spec2Model ----
(***************************************************************************)
(* LeadPilot pipeline: the orchestrator run() of Tools/run_pipeline.py     *)
(* over the row store (Tools/read_sheet.py, Tools/update_sheet.py) and its *)
(* stage collaborators.  Strings are TLA+ strings; Python's str methods    *)
(* are computed character by character.                                    *)
(***************************************************************************)
EXTENDS Integers, Sequences, FiniteSets, TLC

\* ------------------------------------------------------------- bounds
\* Most data rows a sheet holds below its header row.
MaxRows == 2
\* Largest --limit value run() is invoked with (0 .. MaxLimit).
MaxLimit == 2

\* ------------------------------------------------------------- str helpers
Min(a, b) == IF a < b THEN a ELSE b

\* s[:n]
Slice(s, n) == SubSeq(s, 1, Min(n, Len(s)))

\* s[i] as a one-character string
Ch(s, i) == SubSeq(s, i, i)

Whitespace == {" ", "\t", "\n"}

RECURSIVE LStrip(_)
LStrip(s) ==
    IF Len(s) > 0 /\ Ch(s, 1) \in Whitespace
    THEN LStrip(SubSeq(s, 2, Len(s)))
    ELSE s

RECURSIVE RStrip(_)
RStrip(s) ==
    IF Len(s) > 0 /\ Ch(s, Len(s)) \in Whitespace
    THEN RStrip(SubSeq(s, 1, Len(s) - 1))
    ELSE s

\* str.strip()
Strip(s) == RStrip(LStrip(s))

LowerLetters == "abcdefghijklmnopqrstuvwxyz"
UpperLetters == "ABCDEFGHIJKLMNOPQRSTUVWXYZ"

UpperChar(c) ==
    IF \E i \in 1..26 : Ch(LowerLetters, i) = c
    THEN Ch(UpperLetters, CHOOSE i \in 1..26 : Ch(LowerLetters, i) = c)
    ELSE c

\* str.upper()
RECURSIVE Upper(_)
Upper(s) ==
    IF Len(s) = 0 THEN ""
    ELSE UpperChar(Ch(s, 1)) \o Upper(SubSeq(s, 2, Len(s)))

\* str.startswith(p)
StartsWith(s, p) == Len(s) >= Len(p) /\ SubSeq(s, 1, Len(p)) = p

\* dict.get(key, default) on a row dict
Get(d, key, default) == IF key \in DOMAIN d THEN d[key] ELSE default

Range(f) == {f[i] : i \in DOMAIN f}

\* ------------------------------------------------------------- the sheet
\* The sheet is all_values: a sequence of rows, row 1 the header.
InputColumns == <<"Status", "Email Status", "Email", "Website", "Google Place ID">>
OutputColumns == <<"Preview URL", "Email Draft", "Sent Date", "Notes">>

\* Header rows: the full pipeline schema, and one without the output columns.
HeaderRows == {InputColumns \o OutputColumns, InputColumns}

\* Input cells of the data rows a sheet starts with, in catalogue order.
RowKinds ==
    << [Status |-> "GO", EmailStatus |-> "", Email |-> "info@jansen.nl",
        Website |-> "", PlaceId |-> "ChIJa7"],
       [Status |-> "NO GO", EmailStatus |-> "", Email |-> "info@jansen.nl",
        Website |-> "", PlaceId |-> ""],
       [Status |-> " go ", EmailStatus |-> " invalid ", Email |-> "info@jansen.nl",
        Website |-> "https://jansen.nl", PlaceId |-> ""],
       [Status |-> "Go", EmailStatus |-> "VALID", Email |-> "  ",
        Website |-> "jansen.nl", PlaceId |-> " "],
       [Status |-> "Deployed", EmailStatus |-> "", Email |-> "",
        Website |-> "https://jansen.nl", PlaceId |-> "ChIJa7"],
       [Status |-> "GO", EmailStatus |-> "Blacklisted", Email |-> "",
        Website |-> "", PlaceId |-> ""] >>

InputCell(kind, col) ==
    CASE col = "Status" -> kind.Status
      [] col = "Email Status" -> kind.EmailStatus
      [] col = "Email" -> kind.Email
      [] col = "Website" -> kind.Website
      [] col = "Google Place ID" -> kind.PlaceId
      [] OTHER -> ""

DataRow(header, kind) == [c \in 1..Len(header) |-> InputCell(kind, header[c])]

\* The members of a set of numbers in ascending order.
RECURSIVE Ascending(_)
Ascending(T) ==
    IF T = {} THEN << >>
    ELSE LET m == CHOOSE x \in T : \A y \in T : x <= y
         IN <<m>> \o Ascending(T \ {m})

Reverse(s) == [i \in 1..Len(s) |-> s[Len(s) + 1 - i]]

\* Selections of at most MaxRows catalogue rows, in catalogue order or in
\* the reverse order.
KindSelections ==
    LET picks == {Ascending(T) : T \in {U \in SUBSET (1..Len(RowKinds)) :
                                            Cardinality(U) <= MaxRows}}
    IN picks \cup {Reverse(s) : s \in picks}

\* A sheet with no row at all, or a header row and up to MaxRows data rows.
InitialSheets ==
    {<< >>} \cup
    {<<header>> \o [k \in 1..Len(sel) |-> DataRow(header, RowKinds[sel[k]])] :
        header \in HeaderRows, sel \in KindSelections}

\* ------------------------------------------------------------- read_sheet.py
\* enumerate(all_values[1:], start=2): the first data row is sheet row 2.
FirstDataRow == 2

\* "while len(row_values) < len(headers): row_values.append('')"
Pad(row_values, n) ==
    IF Len(row_values) >= n THEN row_values
    ELSE row_values \o [i \in 1..(n - Len(row_values)) |-> ""]

\* dict(zip(headers, row_values)) plus row_dict["_row"] = row_idx; a header
\* name that occurs twice keeps its last cell, as a Python dict does.
RowDict(headers, row_values, row_idx) ==
    LET padded == Pad(row_values, Len(headers))
        last(h) == CHOOSE i \in 1..Len(headers) :
                      /\ headers[i] = h
                      /\ \A j \in (i + 1)..Len(headers) : headers[j] # h
    IN [h \in Range(headers) \cup {"_row"} |->
            IF h = "_row" THEN row_idx ELSE padded[last(h)]]

\* IsGo comparing the raw cell, without strip() and upper().
IsGoExact(row_dict) == Get(row_dict, "Status", "") = "GO"

\* row_dict.get("Status", "").strip().upper() == "GO"
IsGo(row_dict) == Upper(Strip(Get(row_dict, "Status", ""))) = "GO"

\* The scan loop of get_go_rows from sheet row row_idx on; rows is the list
\* collected so far.  "if limit and len(rows) >= limit: break".
RECURSIVE ScanRows(_, _, _, _)
ScanRows(all_values, row_idx, rows, limit) ==
    IF row_idx > Len(all_values) THEN rows
    ELSE LET row_dict == RowDict(all_values[1], all_values[row_idx], row_idx)
         IN IF IsGo(row_dict)
            THEN LET found == Append(rows, row_dict)
                 IN IF limit # 0 /\ Len(found) >= limit
                    THEN found
                    ELSE ScanRows(all_values, row_idx + 1, found, limit)
            ELSE ScanRows(all_values, row_idx + 1, rows, limit)

GetGoRows(all_values, limit) ==
    IF all_values = << >> THEN << >>
    ELSE ScanRows(all_values, FirstDataRow, << >>, limit)

\* ------------------------------------------------------------- update_sheet.py
StatusColors ==
    {"GO", "SCRAPING", "BUILDING", "DEPLOYING", "Deployed", "EMAILING",
     "Email Draft Written", "SENDING", "Email sent succesfully", "ERROR"}

\* An updates dict is a sequence of <<column, value>> pairs in insertion order.
HasKey(updates, col) == \E i \in 1..Len(updates) : updates[i][1] = col
Value(updates, col) == updates[CHOOSE i \in 1..Len(updates) : updates[i][1] = col][2]

\* headers.index(col_name) + 1
ColIndex(headers, col_name) ==
    CHOOSE i \in 1..Len(headers) :
        /\ headers[i] = col_name
        /\ \A j \in 1..(i - 1) : headers[j] # col_name

\* One range of the batch: the cell (row_num, col_idx) takes the value.
SetCell(g, row_num, col_idx, value) ==
    [g EXCEPT ![row_num] =
        [k \in 1..(IF Len(@) > col_idx THEN Len(@) ELSE col_idx) |->
            IF k = col_idx THEN value
            ELSE IF k <= Len(@) THEN @[k] ELSE ""]]

\* Batch that gives up the whole update when one column is not in the header.
BatchAllOrNothing(headers, updates) ==
    IF \A i \in 1..Len(updates) : updates[i][1] \in Range(headers)
    THEN updates ELSE << >>

\* The batch list: one entry per update whose column is in the header.
Batch(headers, updates) ==
    SelectSeq(updates, LAMBDA u : u[1] \in Range(headers))

RECURSIVE BatchUpdate(_, _, _)
BatchUpdate(g, row_num, batch) ==
    IF batch = << >> THEN g
    ELSE BatchUpdate(SetCell(g, row_num, ColIndex(g[1], batch[1][1]), batch[1][2]),
                     row_num, Tail(batch))

\* The colour call is made when the update names a known Status value and the
\* header has a Status column.
FormatsStatus(headers, updates) ==
    /\ HasKey(updates, "Status")
    /\ Value(updates, "Status") \in StatusColors
    /\ "Status" \in Range(headers)

\* How the store answers one update_row call: every request succeeds, a
\* request up to and including batch_update fails, or only the format request
\* fails.
StoreOutcomes == {"ok", "api_error", "format_error"}

\* UpdateRow with a failing store request swallowed: nothing is written and
\* the call returns as if it had succeeded.
UpdateRowSwallowsErrors(g, row_num, updates, outcome) ==
    LET headers == g[1]
        batch == Batch(headers, updates)
    IN IF outcome = "api_error"
       THEN [grid |-> g, stored |-> FALSE, raised |-> FALSE]
       ELSE [grid |-> BatchUpdate(g, row_num, batch),
             stored |-> batch # << >>, raised |-> FALSE]

\* update_row(sheet_name, row_num, updates) under one store outcome: the sheet
\* afterwards, whether batch_update was applied and whether the call raised.
UpdateRow(g, row_num, updates, outcome) ==
    LET headers == g[1]
        batch == Batch(headers, updates)
        written == BatchUpdate(g, row_num, batch)
    IN CASE outcome = "api_error" ->
              [grid |-> g, stored |-> FALSE, raised |-> TRUE]
         [] outcome = "format_error" /\ FormatsStatus(headers, updates) ->
              [grid |-> written, stored |-> batch # << >>, raised |-> TRUE]
         [] OTHER ->
              [grid |-> written, stored |-> batch # << >>, raised |-> FALSE]

\* ------------------------------------------------------------- scrape_website.py
\* What scrape(url) can return to run(): "" without a remote call for a
\* missing or non-http URL; otherwise "" (no credential, or both fetches
\* failed) or the fetched text.  It has no raising path.
ScrapeResults(url) ==
    IF url = "" \/ ~StartsWith(url, "http") THEN {""}
    ELSE {"", "--- PAGE: https://jansen.nl ---\nLoodgieter Jansen"}

\* ------------------------------------------------------------- fetch_reviews.py
DefaultMaxReviews == 5
DefaultMaxPhotos == 6

EmptyPlaceData == [reviews |-> << >>, photos |-> << >>]

\* A rating is the JSON value the reviews service sent: an integer (int TRUE)
\* or any other JSON value such as null or 4.5 (int FALSE).
IntRating(n) == [int |-> TRUE, val |-> n]
OtherRating == [int |-> FALSE, val |-> 0]

Review(text, rating) ==
    [author_name |-> "Piet", rating |-> rating, text |-> text,
     relative_time_description |-> "een maand geleden"]

\* Answers of the reviews service to one request: a transport or HTTP error,
\* a body the loops cannot walk (a review whose text is null: AttributeError),
\* or a JSON body with a status, reviews and photo references.
PlacesResponses ==
    { [kind |-> "error", status |-> "", reviews |-> << >>, photos |-> << >>],
      [kind |-> "malformed", status |-> "OK", reviews |-> << >>, photos |-> << >>],
      [kind |-> "json", status |-> "REQUEST_DENIED", reviews |-> << >>, photos |-> << >>],
      [kind |-> "json", status |-> "OK",
       reviews |-> <<Review(" Snel geholpen ", IntRating(4)), Review("  ", IntRating(5))>>,
       photos |-> <<"ref1", "">>],
      [kind |-> "json", status |-> "OK",
       reviews |-> <<Review("Prima", OtherRating)>>, photos |-> << >>] }

PhotoUrl(ref) ==
    "https://maps.googleapis.com/maps/api/place/photo" \o "?maxwidth=1200"
        \o "&photo_reference=" \o ref \o "&key=KEY"

RECURSIVE KeptReviews(_)
KeptReviews(revs) ==
    IF revs = << >> THEN << >>
    ELSE LET text == Strip(Head(revs).text)
         IN IF text = "" THEN KeptReviews(Tail(revs))
            ELSE <<[author |-> Head(revs).author_name,
                    rating |-> Head(revs).rating,
                    text |-> text,
                    time_ago |-> Head(revs).relative_time_description]>>
                 \o KeptReviews(Tail(revs))

RECURSIVE KeptPhotos(_)
KeptPhotos(refs) ==
    IF refs = << >> THEN << >>
    ELSE IF Head(refs) = "" THEN KeptPhotos(Tail(refs))
         ELSE <<PhotoUrl(Head(refs))>> \o KeptPhotos(Tail(refs))

\* Fetch without the two slices.
FetchUncapped(place_id, has_key, response, max_reviews, max_photos) ==
    IF place_id = "" \/ Strip(place_id) = "" THEN EmptyPlaceData
    ELSE IF ~has_key THEN EmptyPlaceData
    ELSE IF response.kind # "json" THEN EmptyPlaceData
    ELSE IF response.status # "OK" THEN EmptyPlaceData
    ELSE [reviews |-> KeptReviews(response.reviews),
          photos |-> KeptPhotos(response.photos)]

\* fetch(place_id, max_reviews, max_photos) given whether the credential is
\* set and how the service answers.
Fetch(place_id, has_key, response, max_reviews, max_photos) ==
    IF place_id = "" \/ Strip(place_id) = "" THEN EmptyPlaceData
    ELSE IF ~has_key THEN EmptyPlaceData
    ELSE IF response.kind # "json" THEN EmptyPlaceData
    ELSE IF response.status # "OK" THEN EmptyPlaceData
    ELSE [reviews |-> KeptReviews(Slice(response.reviews, max_reviews)),
          photos |-> KeptPhotos(Slice(response.photos, max_photos))]

\* str * n
RECURSIVE Rep(_, _)
Rep(s, n) == IF n <= 0 THEN "" ELSE s \o Rep(s, n - 1)

\* "*" stands for the black star glyph and "." for the white one.
Stars(rating) == Rep("*", rating) \o Rep(".", 5 - rating)

RECURSIVE ReviewLines(_)
ReviewLines(reviews) ==
    IF reviews = << >> THEN ""
    ELSE "\n\n" \o Stars(Head(reviews).rating.val) \o " " \o Head(reviews).author
         \o " (" \o Head(reviews).time_ago \o ")"
         \o "\n\"" \o Head(reviews).text \o "\""
         \o ReviewLines(Tail(reviews))

Digits == "0123456789"

RECURSIVE PhotoLines(_, _)
PhotoLines(photos, i) ==
    IF photos = << >> THEN ""
    ELSE "\nPhoto " \o Ch(Digits, i + 1) \o ": " \o Head(photos)
         \o PhotoLines(Tail(photos), i + 1)

\* format_for_prompt(place_data): the prompt block, or the TypeError that
\* "str * rating" raises for a rating that is not an integer.
FormatForPrompt(place_data) ==
    LET reviews == place_data.reviews
        photos == place_data.photos
        reviewSection ==
            "REAL GOOGLE REVIEWS (include these verbatim in the website):"
                \o ReviewLines(reviews)
        photoSection ==
            "REAL BUSINESS PHOTOS (use these as <img> src in the website):"
                \o PhotoLines(photos, 1)
    IN IF \E i \in 1..Len(reviews) : ~reviews[i].rating.int
       THEN [raised |-> TRUE, text |-> ""]
       ELSE [raised |-> FALSE,
             text |-> IF reviews # << >> /\ photos # << >>
                        THEN reviewSection \o "\n\n" \o photoSection
                      ELSE IF reviews # << >> THEN reviewSection
                      ELSE IF photos # << >> THEN photoSection
                      ELSE ""]

\* ------------------------------------------------------------- run_pipeline.py
VARIABLES
    grid,          \* the sheet: all_values, header row first
    limit,         \* run()'s limit argument
    pc,            \* the statement of run() executed next
    rows,          \* the list get_go_rows returned
    idx,           \* position of the for loop in rows (1-based)
    scraped_text, place_data, reviews_text, html, live_url, email_body,
    exc,           \* the exception being propagated: [cls, msg, at]
    writeLog,      \* the update_row calls of the current loop iteration, in order
    callLog,       \* the stage calls of the current loop iteration, in order
    grid0,         \* the sheet as run() found it
    frame          \* the call frame of a tool function that is run on its own

vars == <<grid, limit, pc, rows, idx, scraped_text, place_data, reviews_text,
          html, live_url, email_body, exc, writeLog, callLog, grid0, frame>>

\* The variables of run().
runVars == <<grid, limit, pc, rows, idx, scraped_text, place_data, reviews_text,
             html, live_url, email_body, exc, writeLog, callLog, grid0>>

locals == <<scraped_text, place_data, reviews_text, html, live_url, email_body>>

NoExc == [cls |-> "", msg |-> "", at |-> ""]

\* No tool function is being run on its own.
NoFrame == [fn |-> ""]

Raise(cls, msg, at) == [cls |-> cls, msg |-> msg, at |-> at]

\* What a failing request to the row store raises.
StoreError(at) == Raise("APIError", "[429] Quota exceeded", at)

Init ==
    /\ grid \in InitialSheets
    /\ grid0 = grid
    /\ limit \in 0..MaxLimit
    /\ pc = "select"
    /\ rows = << >>
    /\ idx = 1
    /\ scraped_text = ""
    /\ place_data = EmptyPlaceData
    /\ reviews_text = ""
    /\ html = ""
    /\ live_url = ""
    /\ email_body = ""
    /\ exc = NoExc
    /\ writeLog = << >>
    /\ callLog = << >>
    /\ frame = NoFrame

Row == rows[idx]

\* row_num = row["_row"]
RowNum == Row["_row"]

\* EmailBlocked that knows INVALID only.
EmailBlockedInvalidOnly(row) ==
    Upper(Strip(Get(row, "Email Status", ""))) = "INVALID"

\* row.get("Email Status", "").strip().upper() in ("BLACKLISTED", "INVALID")
EmailBlocked(row) ==
    Upper(Strip(Get(row, "Email Status", ""))) \in {"BLACKLISTED", "INVALID"}

\* ToEmail without strip().
ToEmailUnstripped(row) == Get(row, "Email", "")

\* to_email = row.get("Email", "").strip()
ToEmail(row) == Strip(Get(row, "Email", ""))

\* error_msg = f"{type(e).__name__}: {e}"
ErrorMsg(e) == e.cls \o ": " \o e.msg

NotesLimit == 500

\* NoEmailUpdate in the other status vocabulary.
NoEmailUpdateUpperCase == <<<<"Status", "DEPLOYED">>>>

\* ErrorUpdate that writes the note and leaves Status as it is.
ErrorUpdateNotesOnly(e) == <<<<"Notes", Slice(ErrorMsg(e), NotesLimit)>>>>

\* The updates dicts run() writes.
ScrapingUpdate == <<<<"Status", "SCRAPING">>>>
BuildingUpdate == <<<<"Status", "BUILDING">>>>
DeployingUpdate == <<<<"Status", "DEPLOYING">>>>
DeployedUpdate(url) == <<<<"Status", "Deployed">>, <<"Preview URL", url>>>>
NoEmailUpdate == <<<<"Status", "Deployed">>>>
EmailingUpdate == <<<<"Status", "EMAILING">>>>
DraftUpdate(body) == <<<<"Status", "Email Draft Written">>, <<"Email Draft", body>>>>
NoRecipientUpdate == <<<<"Status", "Email Draft Written">>>>
SendingUpdate == <<<<"Status", "SENDING">>>>
SentUpdate(sent_date) ==
    <<<<"Status", "Email sent succesfully">>, <<"Sent Date", sent_date>>>>
ErrorUpdateUncut(e) == <<<<"Status", "ERROR">>, <<"Notes", ErrorMsg(e)>>>>
ErrorUpdate(e) == <<<<"Status", "ERROR">>, <<"Notes", Slice(ErrorMsg(e), NotesLimit)>>>>

\* A stage call and whether it returned (ok) or raised.
Call(name, args, ok) == [row |-> RowNum, call |-> name, args |-> args, ok |-> ok]

\* Where run() goes when an update_row call of the try block returns: on to
\* the statement next, or ("continue") to the next iteration of the loop.
Continue == "continue"

\* One update_row call for the current row.  The store answers in one of its
\* ways; when the call raises control goes to onRaise, when it returns to
\* onReturn.
Update(updates, at, onReturn, onRaise) ==
    \E outcome \in StoreOutcomes :
        LET res == UpdateRow(grid, RowNum, updates, outcome)
        IN /\ grid' = res.grid
           /\ writeLog' = Append(writeLog,
                 [row |-> RowNum, updates |-> updates,
                  stored |-> res.stored, raised |-> res.raised])
           /\ IF res.raised
              THEN /\ pc' = onRaise
                   /\ exc' = StoreError(at)
                   /\ idx' = idx
              ELSE /\ pc' = IF onReturn = Continue THEN "for" ELSE onReturn
                   /\ exc' = NoExc
                   /\ idx' = IF onReturn = Continue THEN idx + 1 ELSE idx

\* rows = read_sheet.get_go_rows(...); "if not rows: return".  A failing read
\* propagates out of run().
Select ==
    /\ pc = "select"
    /\ \E readable \in BOOLEAN :
        IF readable
        THEN /\ rows' = GetGoRows(grid, limit)
             /\ pc' = IF rows' = << >> THEN "returned" ELSE "for"
             /\ exc' = exc
        ELSE /\ rows' = rows
             /\ pc' = "raised"
             /\ exc' = StoreError("select")
    /\ UNCHANGED <<frame, grid, limit, idx, locals, writeLog, callLog, grid0>>

\* "for row in rows": the body for the next row, or the end of run().  The
\* locals of the previous iteration are dead here.
ForRow ==
    /\ pc = "for"
    /\ pc' = IF idx <= Len(rows) THEN "status_scraping" ELSE "returned"
    /\ scraped_text' = ""
    /\ place_data' = EmptyPlaceData
    /\ reviews_text' = ""
    /\ html' = ""
    /\ live_url' = ""
    /\ email_body' = ""
    /\ writeLog' = << >>
    /\ callLog' = << >>
    /\ UNCHANGED <<frame, grid, limit, rows, idx, exc, grid0>>

StatusScraping ==
    /\ pc = "status_scraping"
    /\ Update(ScrapingUpdate, "status_scraping", "scrape", "except")
    /\ UNCHANGED <<frame, limit, rows, locals, callLog, grid0>>

\* scraped_text = scrape_website.scrape(website_url)
Scrape ==
    /\ pc = "scrape"
    /\ LET website_url == Strip(Get(Row, "Website", ""))
       IN /\ scraped_text' \in ScrapeResults(website_url)
          /\ callLog' = Append(callLog, Call("scrape", <<website_url>>, TRUE))
    /\ pc' = "fetch"
    /\ UNCHANGED <<frame, grid, limit, rows, idx, place_data, reviews_text, html,
                   live_url, email_body, exc, writeLog, grid0>>

\* place_data = fetch_reviews.fetch(place_id)
FetchReviews ==
    /\ pc = "fetch"
    /\ LET place_id == Strip(Get(Row, "Google Place ID", ""))
       IN /\ \E has_key \in BOOLEAN, response \in PlacesResponses :
                place_data' = Fetch(place_id, has_key, response,
                                    DefaultMaxReviews, DefaultMaxPhotos)
          /\ callLog' = Append(callLog, Call("fetch", <<place_id>>, TRUE))
    /\ pc' = "format"
    /\ UNCHANGED <<frame, grid, limit, rows, idx, scraped_text, reviews_text, html,
                   live_url, email_body, exc, writeLog, grid0>>

\* reviews_text = fetch_reviews.format_for_prompt(place_data)
FormatReviews ==
    /\ pc = "format"
    /\ LET res == FormatForPrompt(place_data)
       IN IF res.raised
          THEN /\ pc' = "except"
               /\ exc' = Raise("TypeError", "can't multiply sequence by non-int", "format")
               /\ reviews_text' = reviews_text
          ELSE /\ pc' = "status_building"
               /\ exc' = exc
               /\ reviews_text' = res.text
    /\ UNCHANGED <<frame, grid, limit, rows, idx, scraped_text, place_data, html,
                   live_url, email_body, writeLog, callLog, grid0>>

StatusBuilding ==
    /\ pc = "status_building"
    /\ Update(BuildingUpdate, "status_building", "build", "except")
    /\ UNCHANGED <<frame, limit, rows, locals, callLog, grid0>>

\* What build_website raises: its own RuntimeError, or the API client's
\* error, whose message carries the response body and has no length limit.
BuildErrors ==
    {<<"RuntimeError", "Claude returned no text content block">>,
     <<"BadRequestError", "Error code: 400 - " \o Rep("prompt is too long. ", 30)>>}

\* html = build_website.build_website(business_data, scraped_text, reviews_text)
Build ==
    /\ pc = "build"
    /\ \E ok \in BOOLEAN :
        /\ callLog' = Append(callLog, Call("build", <<scraped_text, reviews_text>>, ok))
        /\ IF ok
           THEN /\ html' = "<!DOCTYPE html><html>Jansen</html>"
                /\ pc' = "save_html"
                /\ exc' = exc
           ELSE /\ html' = html
                /\ pc' = "except"
                /\ \E e \in BuildErrors : exc' = Raise(e[1], e[2], "build")
    /\ UNCHANGED <<frame, grid, limit, rows, idx, scraped_text, place_data, reviews_text,
                   live_url, email_body, writeLog, grid0>>

\* "with open(html_path, 'w') as f: f.write(html)"
SaveHtml ==
    /\ pc = "save_html"
    /\ \E ok \in BOOLEAN :
        IF ok
        THEN /\ pc' = "status_deploying"
             /\ exc' = exc
        ELSE /\ pc' = "except"
             /\ exc' = Raise("OSError", "[Errno 28] No space left on device", "save_html")
    /\ UNCHANGED <<frame, grid, limit, rows, idx, locals, writeLog, callLog, grid0>>

StatusDeploying ==
    /\ pc = "status_deploying"
    /\ Update(DeployingUpdate, "status_deploying", "deploy", "except")
    /\ UNCHANGED <<frame, limit, rows, locals, callLog, grid0>>

\* The URL deploy() returns for the site it created.
DeployUrl == "https://jansen-1730000000.netlify.app"

\* What deploy() raises: a failed hosting call, or the missing token.
DeployErrors ==
    {<<"HTTPError", "422 Client Error">>,
     <<"RuntimeError", "NETLIFY_TOKEN not set in .env">>}

\* live_url = deploy_netlify.deploy(html, business_name)
Deploy ==
    /\ pc = "deploy"
    /\ \E ok \in BOOLEAN :
        /\ callLog' = Append(callLog, Call("deploy", <<html>>, ok))
        /\ IF ok
           THEN /\ live_url' = DeployUrl
                /\ pc' = "status_deployed"
                /\ exc' = exc
           ELSE /\ live_url' = live_url
                /\ pc' = "except"
                /\ \E e \in DeployErrors : exc' = Raise(e[1], e[2], "deploy")
    /\ UNCHANGED <<frame, grid, limit, rows, idx, scraped_text, place_data, reviews_text,
                   html, email_body, writeLog, grid0>>

StatusDeployed ==
    /\ pc = "status_deployed"
    /\ Update(DeployedUpdate(live_url), "status_deployed", "email_check", "except")
    /\ UNCHANGED <<frame, limit, rows, locals, callLog, grid0>>

\* Email Status is BLACKLISTED or INVALID: Status is written Deployed again
\* and the loop continues with the next row.
SkipEmail ==
    /\ pc = "email_check"
    /\ EmailBlocked(Row)
    /\ Update(NoEmailUpdate, "skip_email", Continue, "except")
    /\ UNCHANGED <<frame, limit, rows, locals, callLog, grid0>>

StatusEmailing ==
    /\ pc = "email_check"
    /\ ~EmailBlocked(Row)
    /\ Update(EmailingUpdate, "status_emailing", "draft", "except")
    /\ UNCHANGED <<frame, limit, rows, locals, callLog, grid0>>

\* email_body = draft_email.draft_email(business_data, live_url, scraped_text, reviews_text)
Draft ==
    /\ pc = "draft"
    /\ \E ok \in BOOLEAN :
        /\ callLog' = Append(callLog,
              Call("draft", <<live_url, scraped_text, reviews_text>>, ok))
        /\ IF ok
           THEN /\ email_body' = "Beste Jansen,\nuw preview: " \o live_url
                /\ pc' = "status_draft"
                /\ exc' = exc
           ELSE /\ email_body' = email_body
                /\ pc' = "except"
                /\ exc' = Raise("RuntimeError", "Claude returned no text content block", "draft")
    /\ UNCHANGED <<frame, grid, limit, rows, idx, scraped_text, place_data, reviews_text,
                   html, live_url, writeLog, grid0>>

StatusDraft ==
    /\ pc = "status_draft"
    /\ Update(DraftUpdate(email_body), "status_draft", "recipient_check", "except")
    /\ UNCHANGED <<frame, limit, rows, locals, callLog, grid0>>

\* No recipient address: Status is written Email Draft Written again and the
\* loop continues with the next row.
SkipSend ==
    /\ pc = "recipient_check"
    /\ ToEmail(Row) = ""
    /\ Update(NoRecipientUpdate, "skip_send", Continue, "except")
    /\ UNCHANGED <<frame, limit, rows, locals, callLog, grid0>>

StatusSending ==
    /\ pc = "recipient_check"
    /\ ToEmail(Row) # ""
    /\ Update(SendingUpdate, "status_sending", "send", "except")
    /\ UNCHANGED <<frame, limit, rows, locals, callLog, grid0>>

\* What send_email() raises: a rejected login, or the missing relay user or
\* password.
SendErrors ==
    {<<"RuntimeError", "SMTP auth failed: (535, b'5.7.3')">>,
     <<"RuntimeError", "SMTP_USER and SMTP_PASSWORD must be set in .env">>}

\* send_result = send_email.send_email(to_email, email_body, business_name, test_mode)
Send ==
    /\ pc = "send"
    /\ \E ok \in BOOLEAN :
        /\ callLog' = Append(callLog, Call("send", <<ToEmail(Row), email_body>>, ok))
        /\ IF ok
           THEN /\ pc' = "status_sent"
                /\ exc' = exc
           ELSE /\ pc' = "except"
                /\ \E e \in SendErrors : exc' = Raise(e[1], e[2], "send")
    /\ UNCHANGED <<frame, grid, limit, rows, idx, locals, writeLog, grid0>>

\* sent_date = datetime.now().strftime("%Y-%m-%d %H:%M")
SentDate == "2026-03-02 10:15"

StatusSent ==
    /\ pc = "status_sent"
    /\ Update(SentUpdate(SentDate), "status_sent", Continue, "except")
    /\ UNCHANGED <<frame, limit, rows, locals, callLog, grid0>>

\* "except Exception as e": Status ERROR and Notes are written for the row,
\* then the loop goes on.  This update_row call is in no try block: when it
\* raises, the exception leaves run().
HandleError ==
    /\ pc = "except"
    /\ Update(ErrorUpdate(exc), "except", Continue, "raised")
    /\ UNCHANGED <<frame, limit, rows, locals, callLog, grid0>>

Next ==
    \/ Select
    \/ ForRow
    \/ StatusScraping
    \/ Scrape
    \/ FetchReviews
    \/ FormatReviews
    \/ StatusBuilding
    \/ Build
    \/ SaveHtml
    \/ StatusDeploying
    \/ Deploy
    \/ StatusDeployed
    \/ SkipEmail
    \/ StatusEmailing
    \/ Draft
    \/ StatusDraft
    \/ SkipSend
    \/ StatusSending
    \/ Send
    \/ StatusSent
    \/ HandleError

Spec == Init /\ [][Next]_vars

\* ------------------------------------------------------------- tool functions
\* run() is not running: the state in which a tool function is run on its own.
IdleRun ==
    /\ grid = << >>
    /\ grid0 = << >>
    /\ limit = 0
    /\ pc = "idle"
    /\ rows = << >>
    /\ idx = 1
    /\ scraped_text = ""
    /\ place_data = EmptyPlaceData
    /\ reviews_text = ""
    /\ html = ""
    /\ live_url = ""
    /\ email_body = ""
    /\ exc = NoExc
    /\ writeLog = << >>
    /\ callLog = << >>

\* os.getenv(name, default): a variable that is not set reads as the default.
Unset == "<unset>"
Getenv(env, name, default) == IF env[name] = Unset THEN default ELSE env[name]

\* What a tool function has done so far: nothing yet, returned, or raised.
NoResult == [kind |-> "none", cls |-> "", value |-> ""]
Returned(value) == [kind |-> "returned", cls |-> "", value |-> value]
Raised(cls) == [kind |-> "raised", cls |-> cls, value |-> ""]

\* What a tool function does that the outside can observe, in order: a
\* request to a remote service with its outcome, or a time.sleep(wait).
Remote(service, attempt, rcpt, outcome) ==
    [kind |-> "remote", service |-> service, attempt |-> attempt, rcpt |-> rcpt,
     outcome |-> outcome, wait |-> 0]
Sleep(wait) ==
    [kind |-> "sleep", service |-> "", attempt |-> 0, rcpt |-> "",
     outcome |-> "", wait |-> wait]

\* ------------------------------------------------------------- send_email.py
MAX_RETRIES == 3

\* wait = [5, 10, 20][attempt]
SendWaits == <<5, 10, 20>>

\* The arguments and the environment of one send_email call.
SendInputs ==
    [to_email : {"info@jansen.nl", "test@aiboostly.nl"},
     test_mode : BOOLEAN,
     SMTP_USER : {Unset, "dan@aiboostly.nl"},
     SMTP_PASSWORD : {Unset, "geheim"},
     SMTP_TEST_EMAIL : {Unset, "test@aiboostly.nl"}]

\* ActualRecipient that ignores test_mode.
ActualRecipientIgnoresTestMode(to_email, test_mode, env) == to_email

\* actual_recipient: to_email, or in test mode os.getenv("SMTP_TEST_EMAIL", ...)
ActualRecipient(to_email, test_mode, env) ==
    IF test_mode THEN Getenv(env, "SMTP_TEST_EMAIL", "dan.ivdnis@gmail.com")
    ELSE to_email

\* How one pass through the with-block ends: it completes; sendmail was
\* accepted and closing the session raised SMTPResponseException; login raised
\* SMTPAuthenticationError; or an SMTPException/OSError was raised before the
\* relay accepted the message.
SmtpOutcomes == {"sent", "close_error", "auth_error", "transport_error"}

\* SendStep that gives up at the first transport error.
SendStepNoRetry(attempt, outcome) ==
    CASE outcome = "sent" -> "return"
      [] outcome = "auth_error" -> "raise_auth"
      [] OTHER -> "raise"

\* SendStep that treats an authentication error as a transport error.
SendStepRetriesAuth(attempt, outcome) ==
    CASE outcome = "sent" -> "return"
      [] attempt < MAX_RETRIES - 1 -> "sleep"
      [] OTHER -> "raise"

\* What the loop body does with the outcome of attempt number attempt
\* (0-based): return, raise RuntimeError, sleep and continue, or re-raise.
SendStep(attempt, outcome) ==
    CASE outcome = "sent" -> "return"
      [] outcome = "auth_error" -> "raise_auth"
      [] attempt < MAX_RETRIES - 1 -> "sleep"
      [] OTHER -> "raise"

SendFrame(in) ==
    [fn |-> "send_email", pc |-> "enter", to_email |-> in.to_email,
     test_mode |-> in.test_mode, env |-> in, actual_recipient |-> "",
     attempt |-> 0, events |-> << >>, result |-> NoResult]

SendInit ==
    /\ IdleRun
    /\ frame \in {SendFrame(in) : in \in SendInputs}

\* Lines 43-58: the credentials check and the recipient.
SendEnter ==
    /\ frame.fn = "send_email"
    /\ frame.pc = "enter"
    /\ frame' =
         IF frame.env.SMTP_USER \in {Unset, ""} \/ frame.env.SMTP_PASSWORD \in {Unset, ""}
         THEN [frame EXCEPT !.pc = "done", !.result = Raised("RuntimeError")]
         ELSE [frame EXCEPT !.pc = "attempt",
                            !.actual_recipient =
                                ActualRecipient(frame.to_email, frame.test_mode, frame.env)]
    /\ UNCHANGED runVars

\* One iteration of "for attempt in range(MAX_RETRIES)" up to the sleep.
SendAttempt ==
    /\ frame.fn = "send_email"
    /\ frame.pc = "attempt"
    /\ frame.attempt < MAX_RETRIES
    /\ \E outcome \in SmtpOutcomes :
        LET step == SendStep(frame.attempt, outcome)
            ev == Remote("smtp", frame.attempt, frame.actual_recipient, outcome)
        IN frame' = [frame EXCEPT
               !.events = Append(@, ev),
               !.pc = IF step = "sleep" THEN "sleep" ELSE "done",
               !.result =
                   CASE step = "return" ->
                          Returned([status |-> "sent", to_email |-> frame.actual_recipient])
                     [] step = "raise_auth" -> Raised("RuntimeError")
                     [] step = "raise" ->
                          Raised(IF outcome = "close_error" THEN "SMTPResponseException"
                                 ELSE "SMTPServerDisconnected")
                     [] OTHER -> @]
    /\ UNCHANGED runVars

\* time.sleep(wait); continue
SendSleep ==
    /\ frame.fn = "send_email"
    /\ frame.pc = "sleep"
    /\ frame' = [frame EXCEPT !.events = Append(@, Sleep(SendWaits[frame.attempt + 1])),
                              !.attempt = @ + 1,
                              !.pc = "attempt"]
    /\ UNCHANGED runVars

SendNext ==
    \/ SendEnter
    \/ SendAttempt
    \/ SendSleep

SendSpec == SendInit /\ [][SendNext]_vars

\* ------------------------------------------------------------- build_website.py, draft_email.py
\* str.lower()
LowerChar(c) ==
    IF \E i \in 1..26 : Ch(UpperLetters, i) = c
    THEN Ch(LowerLetters, CHOOSE i \in 1..26 : Ch(UpperLetters, i) = c)
    ELSE c

RECURSIVE Lower(_)
Lower(s) == IF s = "" THEN "" ELSE LowerChar(Ch(s, 1)) \o Lower(Tail(s))

EndsWith(s, p) == Len(s) >= Len(p) /\ SubSeq(s, Len(s) - Len(p) + 1, Len(s)) = p

\* "for attempt in range(3)"
ModelAttempts == 3

\* wait = 20 * (attempt + 1)
OverloadWait == 20

\* GenWait that does not grow with the attempt.
GenWaitFlat(attempt) == OverloadWait

GenWait(attempt) == OverloadWait * (attempt + 1)

\* How one client.messages.stream(...) ends: the final message arrives, or
\* APIStatusError with status 529, APIStatusError with another status, or an
\* exception that is no APIStatusError (connection error, timeout).
ApiOutcomes == {"message", "overloaded", "status_error", "connection_error"}

\* What the loop body does with the outcome of attempt number attempt
\* (0-based): break with the response, sleep and continue, or raise.
GenStep(attempt, outcome) ==
    CASE outcome = "message" -> "break"
      [] outcome = "overloaded" /\ attempt < ModelAttempts - 1 -> "wait"
      [] OTHER -> "raise"

\* The content blocks of a final message.  A string of this language cannot
\* hold a backquote: in the texts "~" stands for it, so "~~~" is the Markdown
\* fence (FENCE in the comments below).
Block(type, text) == [type |-> type, text |-> text]

ModelResponses ==
    {<< >>,
     <<Block("thinking", "")>>,
     <<Block("text", "<!DOCTYPE html><html>Jansen</html>")>>,
     <<Block("thinking", ""), Block("tool_use", ""), Block("text", "Ik zoek Jansen op."),
       Block("text", "~~~html\n<!doctype html><html>Jansen</html>\n~~~\n")>>,
     <<Block("text", "<html>Jansen</html>"), Block("text", "Sorry, dat kan ik niet.")>>,
     <<Block("text", "<html>Jansen</html>"), Block("text", "")>>,
     <<Block("text", "  <HTML lang=nl>Jansen</HTML> \n")>>,
     <<Block("text", "\n~~~html\n<html>Jansen</html>~~~")>>,
     <<Block("text", "<html>Jansen</html>"), Block("thinking", "")>>,
     <<Block("text", "   ")>>,
     <<Block("text", "~~~HTML <html>Jansen</html>~~~")>>,
     <<Block("text", "~~~html\n<html>Jansen</html>\n~~~\nSucces!")>>,
     <<Block("text", "<html>Jansen</html>\n~~~\n~~~")>>}

\* "for block in reversed(response.content): if block.type == 'text': ...
\* break": the text of the last text block; "" stands for None as well, both
\* are falsy in the test that follows.
LastText(content) ==
    LET texts == {i \in 1..Len(content) : content[i].type = "text"}
    IN IF texts = {} THEN ""
       ELSE content[CHOOSE i \in texts : \A j \in texts : j <= i].text

\* re.sub(r"^FENCEhtml?\s*\n?", "", html, flags=re.IGNORECASE)
StripOpenFence(s) ==
    IF StartsWith(Lower(s), "~~~htm")
    THEN LET rest == SubSeq(s, 7, Len(s))
         IN LStrip(IF StartsWith(Lower(rest), "l") THEN Tail(rest) ELSE rest)
    ELSE s

\* re.sub(r"\n?FENCE\s*$", "", html)
StripCloseFence(s) ==
    LET t == RStrip(s)
    IN IF EndsWith(t, "~~~")
       THEN LET base == SubSeq(t, 1, Len(t) - 3)
            IN IF EndsWith(base, "\n") THEN SubSeq(base, 1, Len(base) - 1) ELSE base
       ELSE s

IsHtmlStart(s) == StartsWith(Lower(s), "<!doctype") \/ StartsWith(Lower(s), "<html")

\* BuildExtract without the document-start check.
BuildExtractUnchecked(content) ==
    LET text == LastText(content)
    IN IF text = "" THEN [raised |-> TRUE, value |-> ""]
       ELSE [raised |-> FALSE, value |-> Strip(StripCloseFence(StripOpenFence(text)))]

\* build_website lines 130-149: what is returned, or that it raises.
BuildExtract(content) ==
    LET text == LastText(content)
        stripped == Strip(StripCloseFence(StripOpenFence(text)))
    IN IF text = "" THEN [raised |-> TRUE, value |-> ""]
       ELSE IF ~IsHtmlStart(stripped) THEN [raised |-> TRUE, value |-> ""]
       ELSE [raised |-> FALSE, value |-> stripped]

\* draft_email lines 135-147.
DraftExtract(content) ==
    LET text == LastText(content)
    IN IF text = "" THEN [raised |-> TRUE, value |-> ""]
       ELSE [raised |-> FALSE, value |-> Strip(text)]

GenFrame(fn) ==
    [fn |-> fn, pc |-> "stream", attempt |-> 0, events |-> << >>,
     response |-> << >>, result |-> NoResult]

GenInit ==
    /\ IdleRun
    /\ frame \in {GenFrame(fn) : fn \in {"build_website", "draft_email"}}

\* One iteration of "for attempt in range(3)" up to the sleep.
GenAttempt ==
    /\ frame.fn \in {"build_website", "draft_email"}
    /\ frame.pc = "stream"
    /\ frame.attempt < ModelAttempts
    /\ \E outcome \in ApiOutcomes, response \in ModelResponses :
        LET step == GenStep(frame.attempt, outcome)
        IN frame' = [frame EXCEPT
               !.events = Append(@, Remote("claude", frame.attempt, "", outcome)),
               !.response = IF step = "break" THEN response ELSE @,
               !.pc = CASE step = "break" -> "extract"
                        [] step = "wait" -> "wait"
                        [] OTHER -> "done",
               !.result = IF step = "raise"
                          THEN Raised(IF outcome = "connection_error"
                                      THEN "APIConnectionError" ELSE "APIStatusError")
                          ELSE @]
    /\ UNCHANGED runVars

\* time.sleep(wait); last_error = e; continue
GenSleep ==
    /\ frame.fn \in {"build_website", "draft_email"}
    /\ frame.pc = "wait"
    /\ frame' = [frame EXCEPT !.events = Append(@, Sleep(GenWait(frame.attempt))),
                              !.attempt = @ + 1,
                              !.pc = "stream"]
    /\ UNCHANGED runVars

\* The code after the loop: the text is taken out of the response.
GenExtract ==
    /\ frame.fn \in {"build_website", "draft_email"}
    /\ frame.pc = "extract"
    /\ LET res == IF frame.fn = "build_website" THEN BuildExtract(frame.response)
                  ELSE DraftExtract(frame.response)
       IN frame' = [frame EXCEPT
              !.pc = "done",
              !.result = IF res.raised THEN Raised("RuntimeError") ELSE Returned(res.value)]
    /\ UNCHANGED runVars

GenNext ==
    \/ GenAttempt
    \/ GenSleep
    \/ GenExtract

GenSpec == GenInit /\ [][GenNext]_vars

\* ------------------------------------------------------------- scrape_website.py (stepwise)
DEFAULT_MAX_CHARS == 8000
CRAWL_POLL_INTERVAL == 3
CRAWL_TIMEOUT == 45

\* The arguments and the environment of one scrape call.
ScrapeInputs ==
    [url : {"", "jansen.nl", "https://jansen.nl"},
     max_chars : {DEFAULT_MAX_CHARS, 10},
     FIRECRAWL_API_KEY : {Unset, "", "fc-123"}]

\* Seconds a status request can take before it answers (its timeout is 15).
RequestTimes == {0, 12}

\* re.sub(r"\n{3,}", "\n\n", text): of a run of newlines the first two stay,
\* so the character at i goes when it and the two before it are newlines.
RECURSIVE CollapseRange(_, _, _)
CollapseRange(s, lo, hi) ==
    IF lo > hi THEN ""
    ELSE IF lo = hi
    THEN IF lo >= 3 /\ SubSeq(s, lo - 2, lo) = "\n\n\n" THEN "" ELSE Ch(s, lo)
    ELSE LET mid == (lo + hi) \div 2
         IN CollapseRange(s, lo, mid) \o CollapseRange(s, mid + 1, hi)

CollapseNewlines(s) == CollapseRange(s, 1, Len(s))

\* text[:max_chars] + "..." if len(text) > max_chars else text
Truncate(text, max_chars) ==
    IF Len(text) > max_chars THEN Slice(text, max_chars) \o "..." ELSE text

\* The pages a completed crawl can report, each <<sourceURL, markdown>>.
CrawlPages ==
    {<< >>,
     <<<<"https://jansen.nl", "  ">>>>,
     <<<<"https://jansen.nl", "Loodgieter Jansen\n\n\n\nBel ons">>>>,
     <<<<"https://jansen.nl", "Jansen">>, <<"https://jansen.nl/contact", "">>,
       <<"https://jansen.nl/over", "Sinds 1990\n">>>>}

\* The markdown a single-page fetch can report.
SinglePages == {"", "Jansen", "\nLoodgieter Jansen\n\n\n\nBel ons\n"}

\* "\n\n".join(sections) over the pages whose stripped markdown is not empty.
RECURSIVE JoinSections(_)
JoinSections(pages) ==
    IF pages = << >> THEN ""
    ELSE LET md == Strip(pages[1][2])
             rest == JoinSections(Tail(pages))
         IN IF md = "" THEN rest
            ELSE ("--- PAGE: " \o pages[1][1] \o " ---\n" \o md)
                 \o (IF rest = "" THEN "" ELSE "\n\n" \o rest)

\* _crawl_site lines 99-112: what a completed crawl returns.
CrawlText(pages, max_chars) ==
    Truncate(Strip(CollapseNewlines(JoinSections(pages))), max_chars)

\* _scrape_single lines 58-60.
SingleText(markdown, max_chars) ==
    Truncate(Strip(CollapseNewlines(markdown)), max_chars)

\* How the POST that starts the crawl ends: a requests exception, an HTTP
\* error status, an answer without id, or a crawl id.
CrawlStartOutcomes == {"exception", "http_error", "no_id", "started"}

\* How one status poll ends.
CrawlPollOutcomes ==
    {"exception", "http_error", "bad_payload", "failed", "scraping", "completed"}

\* How the single-page POST ends.
SingleOutcomes == {"exception", "http_error", "bad_payload", "not_success", "page"}

\* FallbackResult that lets the exception of the single-page fetch through.
FallbackResultPropagates(outcome, markdown, max_chars) ==
    CASE outcome = "page" -> Returned(SingleText(markdown, max_chars))
      [] outcome = "not_success" -> Returned("")
      [] OTHER -> Raised("HTTPError")

\* scrape lines 142-148: the result of the fallback.
FallbackResult(outcome, markdown, max_chars) ==
    CASE outcome = "page" -> Returned(SingleText(markdown, max_chars))
      [] OTHER -> Returned("")

ScrapeFrame(in) ==
    [fn |-> "scrape", pc |-> "enter", url |-> in.url, max_chars |-> in.max_chars,
     env |-> in, elapsed |-> 0, polls |-> 0, events |-> << >>, result |-> NoResult]

ScrapeInit ==
    /\ IdleRun
    /\ frame \in {ScrapeFrame(in) : in \in ScrapeInputs}

\* scrape lines 125-131.
ScrapeEnter ==
    /\ frame.fn = "scrape"
    /\ frame.pc = "enter"
    /\ frame' =
         IF frame.url = "" \/ ~StartsWith(frame.url, "http")
         THEN [frame EXCEPT !.pc = "done", !.result = Returned("")]
         ELSE IF frame.env.FIRECRAWL_API_KEY \in {Unset, ""}
         THEN [frame EXCEPT !.pc = "done", !.result = Returned("")]
         ELSE [frame EXCEPT !.pc = "crawl_post"]
    /\ UNCHANGED runVars

\* _crawl_site lines 65-87: the crawl is started and the deadline set.
CrawlStart ==
    /\ frame.fn = "scrape"
    /\ frame.pc = "crawl_post"
    /\ \E outcome \in CrawlStartOutcomes :
        frame' = [frame EXCEPT
            !.events = Append(@, Remote("crawl", 0, "", outcome)),
            !.elapsed = 0,
            !.pc = IF outcome = "started" THEN "poll" ELSE "fallback"]
    /\ UNCHANGED runVars

\* DeadlinePassed that is true only after the deadline.
DeadlinePassedLate(elapsed) == elapsed > CRAWL_TIMEOUT

\* "while time.time() < deadline" is false: elapsed is the time since the
\* deadline was set.
DeadlinePassed(elapsed) == elapsed >= CRAWL_TIMEOUT

\* PollStep that goes to the single-page fetch after a completed crawl too.
PollStepAlwaysFallsBack(outcome) ==
    IF outcome = "scraping" THEN "poll" ELSE "fallback"

\* Where scrape goes after a status poll: it returns the crawl's text, polls
\* again, or leaves _crawl_site with an exception for the fallback.
PollStep(outcome) ==
    CASE outcome = "completed" -> "done"
      [] outcome = "scraping" -> "poll"
      [] OTHER -> "fallback"

\* _crawl_site lines 88-117: one test of the while condition and, when the
\* deadline has not passed, one sleep and one status request.
CrawlPoll ==
    /\ frame.fn = "scrape"
    /\ frame.pc = "poll"
    /\ IF DeadlinePassed(frame.elapsed)
       THEN frame' = [frame EXCEPT !.pc = "fallback"]
       ELSE \E outcome \in CrawlPollOutcomes, pages \in CrawlPages, d \in RequestTimes :
              frame' = [frame EXCEPT
                  !.events = @ \o <<Sleep(CRAWL_POLL_INTERVAL),
                                    Remote("crawl_status", frame.polls, "", outcome)>>,
                  !.polls = @ + 1,
                  !.elapsed = @ + CRAWL_POLL_INTERVAL + d,
                  !.pc = PollStep(outcome),
                  !.result = IF outcome = "completed"
                             THEN Returned(CrawlText(pages, frame.max_chars))
                             ELSE @]
    /\ UNCHANGED runVars

\* scrape lines 138-148: the single-page fetch after a failed crawl.
ScrapeSingle ==
    /\ frame.fn = "scrape"
    /\ frame.pc = "fallback"
    /\ \E outcome \in SingleOutcomes, markdown \in SinglePages :
        frame' = [frame EXCEPT
            !.events = Append(@, Remote("scrape", 0, "", outcome)),
            !.pc = "done",
            !.result = FallbackResult(outcome, markdown, frame.max_chars)]
    /\ UNCHANGED runVars

ScrapeNext ==
    \/ ScrapeEnter
    \/ CrawlStart
    \/ CrawlPoll
    \/ ScrapeSingle

ScrapeSpec == ScrapeInit /\ [][ScrapeNext]_vars

\* scrape when every request returns or times out: a step that can be taken
\* is taken.
ScrapeFairSpec == ScrapeSpec /\ WF_vars(ScrapeNext)

\* ------------------------------------------------------------- fetch_reviews.py (stepwise)
\* The arguments and the environment of one fetch call.
FetchInputs ==
    [place_id : {"", "  ", " ChIJa7 "},
     max_reviews : {0, 1, DefaultMaxReviews},
     max_photos : {0, 1, DefaultMaxPhotos},
     GOOGLE_MAPS_API_KEY : {Unset, "", "AIza"}]

\* What the reviews service can answer to a fetch on its own: the answers of
\* PlacesResponses and one with more reviews and photos than a small cap.
FetchResponses ==
    PlacesResponses \cup
    { [kind |-> "json", status |-> "OK",
       reviews |-> <<Review("Top", IntRating(5)), Review("Goed", IntRating(4)),
                     Review("Matig", IntRating(2))>>,
       photos |-> <<"ref1", "ref2", "ref3">>] }

FetchFrame(in) ==
    [fn |-> "fetch", pc |-> "enter", place_id |-> in.place_id,
     max_reviews |-> in.max_reviews, max_photos |-> in.max_photos, env |-> in,
     response |-> [kind |-> "none", status |-> "", reviews |-> << >>, photos |-> << >>],
     events |-> << >>, result |-> NoResult]

FetchInit ==
    /\ IdleRun
    /\ frame \in {FetchFrame(in) : in \in FetchInputs}

\* fetch lines 33-39: the two early returns.
FetchEnter ==
    /\ frame.fn = "fetch"
    /\ frame.pc = "enter"
    /\ frame' =
         IF frame.place_id = "" \/ Strip(frame.place_id) = ""
         THEN [frame EXCEPT !.pc = "done", !.result = Returned(EmptyPlaceData)]
         ELSE IF frame.env.GOOGLE_MAPS_API_KEY \in {Unset, ""}
         THEN [frame EXCEPT !.pc = "done", !.result = Returned(EmptyPlaceData)]
         ELSE [frame EXCEPT !.pc = "request"]
    /\ UNCHANGED runVars

\* fetch lines 41-98: the request and what is made of its answer.
FetchRequest ==
    /\ frame.fn = "fetch"
    /\ frame.pc = "request"
    /\ \E response \in FetchResponses :
        frame' = [frame EXCEPT
            !.events = Append(@, Remote("places", 0, Strip(frame.place_id),
                                        IF response.kind = "json" THEN response.status
                                        ELSE response.kind)),
            !.response = response,
            !.pc = "done",
            !.result = Returned(Fetch(frame.place_id, TRUE, response,
                                      frame.max_reviews, frame.max_photos))]
    /\ UNCHANGED runVars

FetchNext ==
    \/ FetchEnter
    \/ FetchRequest

FetchSpec == FetchInit /\ [][FetchNext]_vars

\* ------------------------------------------------------------- deploy_netlify.py
\* The characters of a string.
Chars(s) == {Ch(s, i) : i \in 1..Len(s)}

\* A string of this language is ASCII: in business names "#" stands for an
\* accented e (NFD: e followed by a combining accent) and "$" for a letter
\* without decomposition, such as the Danish o with stroke.
AccentedLetters == {"#", "$"}

\* \w of the regular expression, which str patterns match in Unicode.
WordChars == Chars(LowerLetters \o UpperLetters \o Digits \o "_") \cup AccentedLetters

\* [a-z0-9]
SlugChars == Chars(LowerLetters \o Digits)

IsWordAt(s, j) == j \in 1..Len(s) /\ Ch(s, j) \in WordChars

\* \b in front of position i
Boundary(s, i) == IsWordAt(s, i - 1) # IsWordAt(s, i)

\* The alternatives of the suffix pattern, in order; each element is a
\* character and whether it is optional ("\.?").
Lit(c) == <<c, FALSE>>
Opt(c) == <<c, TRUE>>

SuffixPatterns ==
    <<<<Lit("b"), Opt("."), Lit("v"), Opt(".")>>,
      <<Lit("n"), Opt("."), Lit("v"), Opt(".")>>,
      <<Lit("v"), Opt("."), Lit("o"), Opt("."), Lit("f"), Opt(".")>>,
      <<Lit("b"), Lit("v"), Lit("b"), Lit("a")>>,
      <<Lit("l"), Lit("t"), Lit("d")>>,
      <<Lit("g"), Lit("m"), Lit("b"), Lit("h")>>>>

\* MatchEnd that compares the characters as they are (no re.IGNORECASE).
RECURSIVE MatchEndCaseSensitive(_, _, _, _)
MatchEndCaseSensitive(s, i, pat, k) ==
    IF k > Len(pat) THEN (IF Boundary(s, i) THEN i ELSE 0)
    ELSE LET here == i <= Len(s) /\ Ch(s, i) = pat[k][1]
             taken == IF here THEN MatchEndCaseSensitive(s, i + 1, pat, k + 1) ELSE 0
         IN IF taken # 0 THEN taken
            ELSE IF pat[k][2] THEN MatchEndCaseSensitive(s, i, pat, k + 1) ELSE 0

\* Where the match of pat[k..] that starts at position i and is followed by
\* \b ends (the position behind it), trying an optional character first as
\* the regex engine does; 0 when there is no match.
RECURSIVE MatchEnd(_, _, _, _)
MatchEnd(s, i, pat, k) ==
    IF k > Len(pat) THEN (IF Boundary(s, i) THEN i ELSE 0)
    ELSE LET here == i <= Len(s) /\ LowerChar(Ch(s, i)) = pat[k][1]
             taken == IF here THEN MatchEnd(s, i + 1, pat, k + 1) ELSE 0
         IN IF taken # 0 THEN taken
            ELSE IF pat[k][2] THEN MatchEnd(s, i, pat, k + 1) ELSE 0

\* The end of the first alternative that matches at position i; 0 when none.
SuffixEnd(s, i) ==
    IF ~Boundary(s, i) THEN 0
    ELSE LET hits == {p \in 1..Len(SuffixPatterns) : MatchEnd(s, i, SuffixPatterns[p], 1) # 0}
         IN IF hits = {} THEN 0
            ELSE MatchEnd(s, i, SuffixPatterns[CHOOSE p \in hits : \A q \in hits : p <= q], 1)

\* re.sub(r"\b(b\.?v\.?|n\.?v\.?|v\.?o\.?f\.?|bvba|ltd|gmbh)\b", "", name,
\* flags=re.IGNORECASE) from position i on.
RECURSIVE RemoveSuffixes(_, _)
RemoveSuffixes(s, i) ==
    LET starts == {j \in i..Len(s) : SuffixEnd(s, j) # 0}
    IN IF starts = {} THEN SubSeq(s, i, Len(s))
       ELSE LET first == CHOOSE j \in starts : \A k \in starts : j <= k
            IN SubSeq(s, i, first - 1) \o RemoveSuffixes(s, SuffixEnd(s, first))

\* unicodedata.normalize("NFD", name).encode("ascii", "ignore").decode("ascii")
RECURSIVE AsciiFold(_, _, _)
AsciiFold(s, lo, hi) ==
    IF lo > hi THEN ""
    ELSE IF lo = hi
    THEN CASE Ch(s, lo) = "#" -> "e"
           [] Ch(s, lo) = "$" -> ""
           [] OTHER -> Ch(s, lo)
    ELSE LET mid == (lo + hi) \div 2
         IN AsciiFold(s, lo, mid) \o AsciiFold(s, mid + 1, hi)

RECURSIVE LowerRange(_, _, _)
LowerRange(s, lo, hi) ==
    IF lo > hi THEN ""
    ELSE IF lo = hi THEN LowerChar(Ch(s, lo))
    ELSE LET mid == (lo + hi) \div 2
         IN LowerRange(s, lo, mid) \o LowerRange(s, mid + 1, hi)

\* re.sub(r"[^a-z0-9]+", "-", name): of a run of other characters the first
\* becomes the hyphen and the rest goes.
RECURSIVE Hyphenate(_, _, _)
Hyphenate(s, lo, hi) ==
    IF lo > hi THEN ""
    ELSE IF lo = hi
    THEN IF Ch(s, lo) \in SlugChars THEN Ch(s, lo)
         ELSE IF lo = 1 \/ Ch(s, lo - 1) \in SlugChars THEN "-" ELSE ""
    ELSE LET mid == (lo + hi) \div 2
         IN Hyphenate(s, lo, mid) \o Hyphenate(s, mid + 1, hi)

\* name.strip("-")
RECURSIVE StripHyphens(_)
StripHyphens(s) ==
    IF s # "" /\ Ch(s, 1) = "-" THEN StripHyphens(Tail(s))
    ELSE IF s # "" /\ Ch(s, Len(s)) = "-" THEN StripHyphens(SubSeq(s, 1, Len(s) - 1))
    ELSE s

\* return name[:40]
SlugLimit == 40

\* slugify(name)
Slugify(name) ==
    LET stripped == RemoveSuffixes(name, 1)
        ascii == AsciiFold(stripped, 1, Len(stripped))
        lower == LowerRange(ascii, 1, Len(ascii))
        hyphened == Hyphenate(lower, 1, Len(lower))
    IN Slice(StripHyphens(hyphened), SlugLimit)

\* Business names without a legal suffix.
BaseNames ==
    {"", "Jansen", "Caf# De Boer", "S$ren & Zn.", "  Bakkerij 't Hoekje!",
     "Van den Berg Installatietechniek en Loodgieterswerk Groningen",
     "A.B.C. Bouw", "Jansen_"}

\* Legal suffixes as they are written, each with the suffix it is a
\* spelling of.
SuffixVariants ==
    {<<"bv", v>> : v \in {"B.V.", "b.v.", "BV", "bv", "B.V", "Bv.", "b.V."}}
    \cup {<<"nv", v>> : v \in {"N.V.", "nv", "N.v", "NV."}}
    \cup {<<"vof", v>> : v \in {"V.O.F.", "vof", "V.o.f", "VOF.", "v.of"}}

\* Names made only of lower-case letters, digits and single interior
\* hyphens.
CleanNames ==
    {"jansen", "jansen-bv", "b-v", "de-boer-2", "a", Rep("x", 39) \o "-a",
     Rep("x", 37) \o "-bvx", Rep("ab-", 15) \o "ab"}

\* The argument of one slugify call: a clean name, or a base name followed by
\* a blank and a legal suffix.
SlugInputs ==
    {[base |-> n, family |-> "", name |-> n] : n \in CleanNames \cup BaseNames}
    \cup {[base |-> b, family |-> v[1], name |-> b \o " " \o v[2]] :
            b \in BaseNames, v \in SuffixVariants}

SlugFrame(in) ==
    [fn |-> "slugify", pc |-> "call", name |-> in.name, base |-> in.base,
     family |-> in.family, slug |-> "", again |-> "", result |-> NoResult]

SlugInit ==
    /\ IdleRun
    /\ frame \in {SlugFrame(in) : in \in SlugInputs}

\* slugify(name)
SlugCall ==
    /\ frame.fn = "slugify"
    /\ frame.pc = "call"
    /\ frame' = [frame EXCEPT !.slug = Slugify(frame.name),
                              !.result = Returned(Slugify(frame.name)),
                              !.pc = "again"]
    /\ UNCHANGED runVars

\* slugify applied to the slug it returned
SlugAgain ==
    /\ frame.fn = "slugify"
    /\ frame.pc = "again"
    /\ frame' = [frame EXCEPT !.again = Slugify(frame.slug),
                              !.result = Returned(Slugify(frame.slug)),
                              !.pc = "done"]
    /\ UNCHANGED runVars

SlugNext ==
    \/ SlugCall
    \/ SlugAgain

SlugSpec == SlugInit /\ [][SlugNext]_vars

\* ---------------------------------------------------------------- deploy
\* deploy(html, business_name) of deploy_netlify.py, one step per hosting
\* call, and the invocations that follow one another on one clock.
MaxDeploys == 2

DeployInputs ==
    [html : {"<!DOCTYPE html><p>Jansen</p>", "<html>De Boer</html>"},
     business_name : {"Jansen B.V.", "Jansen", "De Boer"},
     env : [NETLIFY_TOKEN : {Unset, "", "nfp_123"}]]

\* Seconds that pass between the start of one invocation and the next.
ClockSteps == {0, 1}

\* html.encode("utf-8"): bytes, a type of their own.
Encode(text) == "utf8:" \o text

\* hashlib.sha1(html_bytes).hexdigest(): different bytes have different
\* digests.
Sha1(bytes) == "sha1:" \o bytes

\* int(time.time()) in decimal, for a clock that reads 1730000000 + t.
Timestamp(t) == "173000000" \o Ch("0123456789", t + 1)

SiteName(business_name, t) == Slugify(business_name) \o "-" \o Timestamp(t)

HostingOutcomes == {"ok", "http_error", "exception"}

\* What the body of the create-site answer holds of ssl_url and url.
SiteDataKinds == {"ssl_url", "url", "neither"}

SiteUrl(kind, site_name) ==
    CASE kind = "ssl_url" -> "https://" \o site_name \o ".example.app"
      [] kind = "url" -> "http://" \o site_name \o ".example.app"
      [] OTHER -> "https://" \o site_name \o ".netlify.app"

\* Where deploy goes after a hosting call: on, or out with the exception.
DeployStepIgnoresFailure(outcome, next) == next

DeployStep(outcome, next) == IF outcome = "ok" THEN next ELSE "done"

HostingError(outcome) ==
    IF outcome = "http_error" THEN Raised("HTTPError") ELSE Raised("ConnectionError")

DeployFrame(in, now, calls, names) ==
    [fn |-> "deploy", pc |-> "enter", html |-> in.html,
     business_name |-> in.business_name, env |-> in.env, now |-> now,
     calls |-> calls, names |-> names, html_bytes |-> "", sha1 |-> "",
     site_name |-> "", site_url |-> "", events |-> <<>>, result |-> NoResult]

DeployInit ==
    /\ IdleRun
    /\ frame \in {DeployFrame(in, 0, 1, <<>>) : in \in DeployInputs}

\* lines 47-56: the token check, the digest and the site name
DeployEnter ==
    /\ frame.fn = "deploy"
    /\ frame.pc = "enter"
    /\ IF Getenv(frame.env, "NETLIFY_TOKEN", "") = ""
       THEN frame' = [frame EXCEPT !.result = Raised("RuntimeError"), !.pc = "done"]
       ELSE frame' = [frame EXCEPT
                !.html_bytes = Encode(frame.html),
                !.sha1 = Sha1(Encode(frame.html)),
                !.site_name = SiteName(frame.business_name, frame.now),
                !.pc = "create"]
    /\ UNCHANGED runVars

\* lines 58-69: step 1, create the site
DeployCreate ==
    /\ frame.fn = "deploy"
    /\ frame.pc = "create"
    /\ \E outcome \in HostingOutcomes, kind \in SiteDataKinds :
         frame' = [frame EXCEPT
             !.events = Append(@, Remote("create_site", 0, frame.site_name, outcome)),
             !.site_url = IF outcome = "ok" THEN SiteUrl(kind, frame.site_name) ELSE @,
             !.result = IF outcome = "ok" THEN @ ELSE HostingError(outcome),
             !.pc = DeployStep(outcome, "manifest")]
    /\ UNCHANGED runVars

\* lines 71-80: step 2, the deploy with the digest manifest
DeployManifest ==
    /\ frame.fn = "deploy"
    /\ frame.pc = "manifest"
    /\ \E outcome \in HostingOutcomes :
         frame' = [frame EXCEPT
             !.events = Append(@, Remote("create_deploy", 0, frame.sha1, outcome)),
             !.result = IF outcome = "ok" THEN @ ELSE HostingError(outcome),
             !.pc = DeployStep(outcome, "upload")]
    /\ UNCHANGED runVars

\* lines 82-92: step 3, upload the bytes, and return the URL
DeployUpload ==
    /\ frame.fn = "deploy"
    /\ frame.pc = "upload"
    /\ \E outcome \in HostingOutcomes :
         frame' = [frame EXCEPT
             !.events = Append(@, Remote("upload_file", 0, frame.html_bytes, outcome)),
             !.result = IF outcome = "ok" THEN Returned(frame.site_url)
                        ELSE HostingError(outcome),
             !.pc = "done"]
    /\ UNCHANGED runVars

\* The next invocation of deploy, on the same clock.
DeployAgain ==
    /\ frame.fn = "deploy"
    /\ frame.pc = "done"
    /\ frame.calls < MaxDeploys
    /\ \E in \in DeployInputs, d \in ClockSteps :
         frame' = DeployFrame(in, frame.now + d, frame.calls + 1,
                              IF frame.site_name = "" THEN frame.names
                              ELSE Append(frame.names, frame.site_name))
    /\ UNCHANGED runVars

DeployNext ==
    \/ DeployEnter
    \/ DeployCreate
    \/ DeployManifest
    \/ DeployUpload
    \/ DeployAgain

DeploySpec == DeployInit /\ [][DeployNext]_vars

\* ------------------------------------------------------------- reading the state
\* The cell of sheet g at row row_num under column col ("" when the header
\* has no such column or the row is shorter).
Cell(g, row_num, col) ==
    IF col \in Range(g[1]) /\ ColIndex(g[1], col) <= Len(g[row_num])
    THEN g[row_num][ColIndex(g[1], col)]
    ELSE ""

\* The loop iteration the logs belong to: after "continue" or the end of the
\* body idx already points at the next row.
LogIdx == IF pc \in {"for", "returned"} THEN idx - 1 ELSE idx

HasLogRow == pc \notin {"select", "returned"} /\ LogIdx \in 1..Len(rows)

LogRow == rows[LogIdx]

\* The body of the loop has ended for LogRow: by "continue" or its last
\* statement, or by an exception that left run() from the except block.
RowEnded ==
    \/ pc = "for" /\ idx > 1
    \/ pc = "raised" /\ exc.at = "except"

\* The Status values of the update_row calls made for the row, in order, and
\* those among them that reached the sheet.
StatusOf(entry) == Value(entry.updates, "Status")
StatusesWritten == [i \in 1..Len(writeLog) |-> StatusOf(writeLog[i])]
StatusesStored ==
    LET kept == SelectSeq(writeLog, LAMBDA e : e.stored)
    IN [i \in 1..Len(kept) |-> StatusOf(kept[i])]

Called(name) == \E i \in 1..Len(callLog) : callLog[i].call = name
CalledOk(name) == \E i \in 1..Len(callLog) : callLog[i].call = name /\ callLog[i].ok
Wrote(col) == \E i \in 1..Len(writeLog) : HasKey(writeLog[i].updates, col)
NoWriteRaised == \A i \in 1..Len(writeLog) : ~writeLog[i].raised
NoCallRaised == \A i \in 1..Len(callLog) : callLog[i].ok

\* s, trimmed and compared case-insensitively, is word.
TrimmedIs(s, word) == Upper(Strip(s)) = word

\* ------------------------------------------------------------- claims
\* C1 (as stated): whenever a step of a row's iteration has raised, the
\* except block stores Status ERROR for that row and the loop goes on with
\* the next selected row.
C1_FailureContained ==
    [][pc = "except" =>
          /\ pc' = "for"
          /\ idx' = idx + 1
          /\ Cell(grid', RowNum, "Status") = "ERROR"]_vars

\* The order of the pipeline's Status values.
StageOrder ==
    <<"SCRAPING", "BUILDING", "DEPLOYING", "Deployed", "EMAILING",
      "Email Draft Written", "SENDING", "Email sent succesfully">>

\* A sequence with each run of equal neighbours collapsed to one element.
RECURSIVE Dedup(_)
Dedup(s) ==
    IF Len(s) <= 1 THEN s
    ELSE IF s[1] = s[2] THEN Dedup(Tail(s))
    ELSE <<s[1]>> \o Dedup(Tail(s))

\* A prefix of StageOrder in which values may repeat in place, optionally
\* followed by one final ERROR.
WellOrdered(s) ==
    LET body == IF s # << >> /\ s[Len(s)] = "ERROR"
                THEN SubSeq(s, 1, Len(s) - 1) ELSE s
        d == Dedup(body)
    IN Len(d) <= Len(StageOrder) /\ d = SubSeq(StageOrder, 1, Len(d))

StageStatus(stage) ==
    CASE stage = "scrape" -> "SCRAPING"
      [] stage = "build" -> "BUILDING"
      [] stage = "deploy" -> "DEPLOYING"
      [] stage = "draft" -> "EMAILING"
      [] stage = "send" -> "SENDING"

\* C3: while a stage's external call is in flight, and after it has failed,
\* the Status stored for the row is that stage's in-progress status, not GO.
C3_StatusBeforeStage ==
    \A stage \in {"scrape", "build", "deploy", "draft", "send"} :
        (pc = stage \/ (pc = "except" /\ exc.at = stage)) =>
            /\ Cell(grid, RowNum, "Status") = StageStatus(stage)
            /\ ~TrimmedIs(Cell(grid, RowNum, "Status"), "GO")

\* C3 witness: the deploy call has failed and the sheet says DEPLOYING.
C3_Witness ==
    /\ pc = "except"
    /\ exc.at = "deploy"
    /\ Cell(grid, RowNum, "Status") = "DEPLOYING"

\* A write that put a terminal status into the sheet: ERROR, Email sent
\* succesfully, the final Deployed or the final Email Draft Written.
TerminalWrite(e) ==
    /\ e.stored
    /\ \/ StatusOf(e) \in {"ERROR", "Email sent succesfully"}
       \/ e.updates = NoEmailUpdate
       \/ e.updates = NoRecipientUpdate

\* C4 (as stated): no row is selected twice, every write of an iteration is
\* for its own row, and a write that stored a terminal status is the last
\* write for the row.
C4_NothingAfterTerminal ==
    /\ \A i, j \in 1..Len(rows) : i # j => rows[i]["_row"] # rows[j]["_row"]
    /\ \A i \in 1..Len(writeLog) :
          /\ HasLogRow /\ writeLog[i].row = LogRow["_row"]
          /\ TerminalWrite(writeLog[i]) => i = Len(writeLog)

\* C5 (as stated): no exception raised while rows are processed leaves run().
C5_RunReturnsNormally == ~(pc = "raised" /\ exc.at = "except")

\* The sheet rows whose Status cell, trimmed and upper-cased, is GO.
MatchingRows(all_values) ==
    {k \in DOMAIN all_values \ {1} : TrimmedIs(Cell(all_values, k, "Status"), "GO")}

\* C10: once get_go_rows has returned, rows holds matching rows only, in
\* ascending row order, each with its sheet row number and its cells; a
\* matching row is left out only behind a reached limit; the sheet is as
\* it was.
C10_GoRowsSelected ==
    (pc # "select" /\ ~(pc = "raised" /\ exc.at = "select")) =>
        LET nums == [i \in 1..Len(rows) |-> rows[i]["_row"]]
            match == IF grid0 = << >> THEN {} ELSE MatchingRows(grid0)
        IN /\ \A i \in 1..Len(rows) : nums[i] \in match
           /\ \A i, j \in 1..Len(rows) : i < j => nums[i] < nums[j]
           /\ \A i \in 1..Len(rows) : \A h \in Range(grid0[1]) :
                 rows[i][h] = Cell(grid0, nums[i], h)
           /\ \A k \in match : k \notin Range(nums) =>
                 /\ limit > 0
                 /\ Len(rows) = limit
                 /\ \A i \in 1..Len(rows) : nums[i] < k
           /\ (idx = 1 /\ pc \in {"for", "returned"}) => grid = grid0

\* C10 witness: a row whose Status needed trimming and upper-casing was
\* selected behind a row that does not match.
C10_Witness ==
    /\ pc = "for"
    /\ idx = 1
    /\ Len(rows) = 1
    /\ rows[1]["_row"] = 3
    /\ rows[1]["Status"] = " go "

\* The row's email-validity flag, trimmed and case-insensitive, is
\* BLACKLISTED or INVALID.
FlagBlocked(row) ==
    \/ TrimmedIs(Get(row, "Email Status", ""), "BLACKLISTED")
    \/ TrimmedIs(Get(row, "Email Status", ""), "INVALID")

\* The row has no recipient address.
BlankRecipient(row) == Strip(Get(row, "Email", "")) = ""

\* The update that carried the deployer's URL was made, and the URL is in
\* the sheet when the sheet has the column.
PreviewUrlWritten ==
    /\ \E i \in 1..Len(writeLog) :
          /\ HasKey(writeLog[i].updates, "Preview URL")
          /\ Value(writeLog[i].updates, "Preview URL") = DeployUrl
    /\ "Preview URL" \in Range(grid[1]) =>
          Cell(grid, LogRow["_row"], "Preview URL") = DeployUrl

\* Nothing of the email stages happened for the row.
NoEmailStage ==
    /\ ~Wrote("Email Draft")
    /\ ~Wrote("Sent Date")
    /\ ~Called("draft")
    /\ ~Called("send")

\* The row ended at Deployed with its Preview URL and without email stages.
EndedDeployed ==
    /\ Cell(grid, LogRow["_row"], "Status") = "Deployed"
    /\ PreviewUrlWritten
    /\ NoEmailStage

\* C6 (as stated): a row flagged BLACKLISTED or INVALID whose scrape, build
\* and deploy succeeded ends at Deployed with its Preview URL, without Email
\* Draft, Sent Date, composer call or relay call.
C6_Original ==
    (RowEnded /\ FlagBlocked(LogRow) /\ CalledOk("deploy")) => EndedDeployed

\* C6 (amended): a flagged row never gets an email stage; and when its scrape,
\* build and deploy succeeded and every update_row call for it returned, it
\* ends at Deployed with its Preview URL.
C6_BlockedRowEndsDeployed ==
    /\ (HasLogRow /\ FlagBlocked(LogRow)) => NoEmailStage
    /\ (RowEnded /\ FlagBlocked(LogRow) /\ CalledOk("deploy") /\ NoWriteRaised)
          => EndedDeployed

\* C6 witness: a row flagged " invalid " ended at Deployed.
C6_Witness ==
    /\ pc = "for"
    /\ idx > 1
    /\ Get(LogRow, "Email Status", "") = " invalid "
    /\ CalledOk("deploy")
    /\ NoWriteRaised
    /\ Cell(grid, LogRow["_row"], "Status") = "Deployed"

\* The mail relay was kept out of the row's iteration.
NoSendStage ==
    /\ ~Called("send")
    /\ "SENDING" \notin Range(StatusesWritten)
    /\ ~Wrote("Sent Date")

\* C7 (as stated): a row with a deliverable flag and a blank recipient whose
\* stages up to the draft succeeded ends at Email Draft Written, with no relay
\* call, no SENDING and no Sent Date.
C7_Original ==
    (RowEnded /\ ~FlagBlocked(LogRow) /\ BlankRecipient(LogRow) /\ CalledOk("draft"))
        => /\ Cell(grid, LogRow["_row"], "Status") = "Email Draft Written"
           /\ NoSendStage

\* C7 (amended): a row with a blank recipient never gets the send stage; and
\* when its flag is deliverable, its draft succeeded and every update_row call
\* for it returned, it ends at Email Draft Written.
C7_NoRecipientEndsAtDraft ==
    /\ (HasLogRow /\ BlankRecipient(LogRow)) => NoSendStage
    /\ (RowEnded /\ ~FlagBlocked(LogRow) /\ BlankRecipient(LogRow)
          /\ CalledOk("draft") /\ NoWriteRaised)
          => Cell(grid, LogRow["_row"], "Status") = "Email Draft Written"

\* C7 witness: a row whose Email cell is only blanks ended at Email Draft
\* Written.
C7_Witness ==
    /\ pc = "for"
    /\ idx > 1
    /\ Get(LogRow, "Email", "") = "  "
    /\ ~FlagBlocked(LogRow)
    /\ CalledOk("draft")
    /\ NoWriteRaised
    /\ Cell(grid, LogRow["_row"], "Status") = "Email Draft Written"

\* C8 (as stated): a row without website URL and without flag, with a
\* recipient, for which no stage call and no update_row call raised, ends at
\* Email sent succesfully with a Sent Date in the same update and the
\* deployer's URL as Preview URL.
C8_HappyPathSent ==
    (/\ RowEnded
     /\ Strip(Get(LogRow, "Website", "")) = ""
     /\ Strip(Get(LogRow, "Email Status", "")) = ""
     /\ ~BlankRecipient(LogRow)
     /\ NoCallRaised
     /\ NoWriteRaised)
        => /\ Cell(grid, LogRow["_row"], "Status") = "Email sent succesfully"
           /\ \E i \in 1..Len(writeLog) :
                 /\ StatusOf(writeLog[i]) = "Email sent succesfully"
                 /\ HasKey(writeLog[i].updates, "Sent Date")
                 /\ Value(writeLog[i].updates, "Sent Date") # ""
           /\ PreviewUrlWritten

\* C9 (as stated): nothing between the SCRAPING write and the BUILDING write
\* raises, whatever the scraping and the reviews service answer.
C9_OptionalInputsNeverRaise ==
    ~(pc = "except" /\ exc.at \in {"scrape", "fetch", "format"})

\* C11 (as stated): for every limit >= 0 get_go_rows returns at most limit
\* rows, namely the first limit matching rows in row order.
C11_AtMostLimit ==
    (pc # "select" /\ ~(pc = "raised" /\ exc.at = "select")) =>
        LET match == IF grid0 = << >> THEN {} ELSE MatchingRows(grid0)
            nums == {rows[i]["_row"] : i \in 1..Len(rows)}
        IN /\ Len(rows) <= limit
           /\ Len(rows) = Min(limit, Cardinality(match))
           /\ \A k \in match : k \in nums \/ \A n \in nums : n < k

\* The update_row call a step makes, if it makes one.
MakesWrite == Len(writeLog') = Len(writeLog) + 1
LastWrite(log) == log[Len(log)]

\* C12: an update_row call leaves the header, the number of rows and every
\* cell outside its row or outside its updates as they were, adds no column,
\* and when it returns every updated column the header knows holds the new
\* value, whether or not the updates name a column the header lacks.
C12_UpdateRowFrame ==
    [][MakesWrite =>
        LET e == LastWrite(writeLog')
        IN /\ grid'[1] = grid[1]
           /\ Len(grid') = Len(grid)
           /\ \A r \in 2..Len(grid) :
                 /\ Len(grid'[r]) <= IF Len(grid[r]) > Len(grid[1])
                                     THEN Len(grid[r]) ELSE Len(grid[1])
                 /\ \A h \in Range(grid[1]) :
                       Cell(grid', r, h) =
                           IF r = e.row /\ HasKey(e.updates, h) /\ (e.stored \/ ~e.raised)
                           THEN Value(e.updates, h)
                           ELSE Cell(grid, r, h)]_vars

\* C12 witness: the Deployed + Preview URL update has returned on a sheet
\* whose header has no Preview URL column, and Status holds Deployed.
C12_Witness ==
    /\ pc = "email_check"
    /\ "Preview URL" \notin Range(grid[1])
    /\ HasKey(LastWrite(writeLog).updates, "Preview URL")
    /\ Cell(grid, RowNum, "Status") = "Deployed"

\* C13 (as stated): update_row never raises once its column update has been
\* applied, so a failing colour call alone sends no row to the except block.
C13_ColourFailureHarmless ==
    \A i \in 1..Len(writeLog) : ~(writeLog[i].stored /\ writeLog[i].raised)

\* C14: the update written by the except block has Status ERROR and as Notes
\* the first 500 characters of "<class name>: <message>" of the exception
\* caught (all of it when it is shorter), and that is what a store that
\* applies the update holds.
C14_ErrorNote ==
    [][pc = "except" =>
        LET e == LastWrite(writeLog')
            full == exc.cls \o ": " \o exc.msg
            note == Value(e.updates, "Notes")
        IN /\ MakesWrite
           /\ StatusOf(e) = "ERROR"
           /\ Len(note) <= 500
           /\ Len(note) = 500 \/ Len(note) = Len(full)
           /\ note = SubSeq(full, 1, Len(note))
           /\ (e.stored /\ "Notes" \in Range(grid[1])) =>
                 Cell(grid', e.row, "Notes") = note]_vars

\* C14 witness: a note cut to exactly 500 characters is in the sheet.
C14_Witness ==
    \E r \in 2..Len(grid) : Len(Cell(grid, r, "Notes")) = 500

\* ------------------------------------------------------------- send_email
\* The connection attempts of the send_email call, in order.
SmtpAttempts == SelectSeq(frame.events, LAMBDA e : e.kind = "remote")
Outcomes(att) == [i \in 1..Len(att) |-> att[i].outcome]
TransportLevel == {"transport_error", "close_error"}
LastEvent == frame.events[Len(frame.events)]

\* C15: send_email makes at most three attempts; an attempt that succeeds is
\* the last thing it does and it returns status "sent"; it returns only after
\* such an attempt; it stops before the third attempt only on success or on
\* an authentication error; after three transport-level failures it raises.
C15_AtMostThreeAttempts ==
    LET att == SmtpAttempts
        n == Len(att)
    IN /\ n <= 3
       /\ \A i \in 1..n : att[i].outcome = "sent" =>
             /\ i = n
             /\ LastEvent = att[n]
             /\ frame.pc = "done"
             /\ frame.result.kind = "returned"
             /\ frame.result.value.status = "sent"
       /\ frame.result.kind = "returned" => (n >= 1 /\ att[n].outcome = "sent")
       /\ (frame.pc = "done" /\ n \in 1..2) => att[n].outcome \in {"sent", "auth_error"}
       /\ (n = 3 /\ \A i \in 1..3 : att[i].outcome \in TransportLevel) =>
             (frame.pc = "done" /\ frame.result.kind = "raised")

\* C15 witness: two transport errors, then success at the third attempt.
C15_Witness ==
    /\ frame.pc = "done"
    /\ Outcomes(SmtpAttempts) = <<"transport_error", "transport_error", "sent">>
    /\ frame.result.kind = "returned"

C17_TestModeRedirects ==
    LET override == IF frame.env.SMTP_TEST_EMAIL = Unset
                    THEN "dan.ivdnis@gmail.com" ELSE frame.env.SMTP_TEST_EMAIL
        att == SmtpAttempts
    IN IF frame.test_mode
       THEN /\ \A i \in 1..Len(att) :
                  /\ att[i].rcpt = override
                  /\ frame.to_email # override => att[i].rcpt # frame.to_email
            /\ frame.result.kind = "returned" => frame.result.value.to_email = override
       ELSE /\ \A i \in 1..Len(att) : att[i].rcpt = frame.to_email
            /\ frame.result.kind = "returned" =>
                  frame.result.value.to_email = frame.to_email

\* C17 witness: a test-mode send to a customer's address has returned after a
\* retry.
C17_Witness ==
    /\ frame.test_mode
    /\ frame.to_email = "info@jansen.nl"
    /\ frame.env.SMTP_TEST_EMAIL = "test@aiboostly.nl"
    /\ Len(SmtpAttempts) = 2
    /\ frame.result.kind = "returned"

\* ------------------------------------------------------------- build_website, draft_email
IsGen == frame.fn \in {"build_website", "draft_email"}
ModelCalls == SelectSeq(frame.events, LAMBDA e : e.kind = "remote")

\* C18: build_website and draft_email call the model at most three times; a
\* 529 at attempt 1 or 2 is followed by a sleep of 20 s, respectively 40 s,
\* and then the next attempt; a 529 at attempt 3 and every other failure at
\* any attempt is the last thing done before raising; nothing else sleeps.
C18_OverloadRetry ==
    LET ev == frame.events
        n == Len(ev)
    IN /\ Len(ModelCalls) <= 3
       /\ \A i \in 1..n :
             /\ (ev[i].outcome = "overloaded" /\ ev[i].attempt \in {0, 1}) =>
                   /\ i = n => frame.pc = "wait"
                   /\ i < n => (/\ ev[i + 1].kind = "sleep"
                                /\ ev[i + 1].wait = IF ev[i].attempt = 0 THEN 20 ELSE 40)
                   /\ i + 1 = n => frame.pc = "stream"
                   /\ i + 1 < n => (/\ ev[i + 2].kind = "remote"
                                    /\ ev[i + 2].attempt = ev[i].attempt + 1)
             /\ (\/ ev[i].outcome = "overloaded" /\ ev[i].attempt = 2
                 \/ ev[i].outcome \in {"status_error", "connection_error"}) =>
                   /\ i = n
                   /\ frame.pc = "done"
                   /\ frame.result.kind = "raised"
                   /\ frame.result.cls \in {"APIStatusError", "APIConnectionError"}
             /\ ev[i].kind = "sleep" => (i > 1 /\ ev[i - 1].outcome = "overloaded")
             /\ ev[i].kind = "remote" => ev[i].attempt = Len(SelectSeq(SubSeq(ev, 1, i - 1),
                                               LAMBDA e : e.kind = "remote"))

\* C18 witness: draft_email met 529 three times, slept 20 s and 40 s between
\* the attempts and raised.
C18_Witness ==
    /\ frame.fn = "draft_email"
    /\ frame.pc = "done"
    /\ frame.result.kind = "raised"
    /\ Len(frame.events) = 5
    /\ \A i \in {1, 3, 5} : frame.events[i].outcome = "overloaded"
    /\ frame.events[2].wait = 20
    /\ frame.events[4].wait = 40

IsSubstring(v, t) ==
    \E i \in 1..(Len(t) + 1) : i + Len(v) - 1 <= Len(t) /\ SubSeq(t, i, i + Len(v) - 1) = v

C20_ScrapeNeverRaises ==
    frame.fn = "scrape" =>
        LET n == Len(frame.events)
            noHttp == frame.url = "" \/ SubSeq(frame.url, 1, Min(4, Len(frame.url))) # "http"
            noKey == frame.env.FIRECRAWL_API_KEY \in {Unset, ""}
        IN /\ frame.result.kind # "raised"
           /\ frame.pc = "done" => frame.result.kind = "returned"
           /\ (noHttp \/ noKey) =>
                 /\ frame.events = << >>
                 /\ frame.pc = "done" => frame.result.value = ""
           /\ (/\ frame.pc = "done"
               /\ n > 0
               /\ frame.events[n].service = "scrape"
               /\ frame.events[n].outcome # "page")
                 => frame.result.value = ""

\* C20 witness: the crawl timed out after its 15 polls, the single-page fetch
\* raised, and "" was returned.
C20_Witness ==
    /\ frame.fn = "scrape"
    /\ frame.pc = "done"
    /\ frame.polls = 15
    /\ LastEvent.service = "scrape"
    /\ LastEvent.outcome = "exception"
    /\ frame.result = Returned("")

\* C21 (as stated): what scrape returns is at most max_chars characters long,
\* and it ends with the ellipsis only when the fetched content was cut.
C21_CappedAtMaxChars ==
    (frame.fn = "scrape" /\ frame.result.kind = "returned") =>
        Len(frame.result.value) <= frame.max_chars

IsClean(x) ==
    /\ \A i \in 1..Len(x) : Ch(x, i) \in SlugChars \cup {"-"}
    /\ x # "" => (Ch(x, 1) # "-" /\ Ch(x, Len(x)) # "-")
    /\ \A i \in 1..(Len(x) - 1) : SubSeq(x, i, i + 1) # "--"

\* C25 (as stated): for a clean name of any length, slugify of the slug is
\* the slug.
C25_Idempotent ==
    (frame.fn = "slugify" /\ frame.pc = "done" /\ IsClean(frame.name)) =>
        frame.again = frame.slug

\* C26: a base name followed by a legal suffix has the slug of the base name
\* followed by that suffix in lower case and without dots, however the suffix
\* is cased and dotted.
C26_SuffixSpellings ==
    (frame.fn = "slugify" /\ frame.pc # "call" /\ frame.family # "") =>
        frame.slug = Slugify(frame.base \o " " \o frame.family)

\* C26 witness: "Jansen B.V." has been slugged to "jansen".
C26_Witness ==
    /\ frame.fn = "slugify"
    /\ frame.name = "Jansen B.V."
    /\ frame.pc = "done"
    /\ frame.slug = "jansen"

\* ---------------------------------------------------------------- deploy
HostingSteps == <<"create_site", "create_deploy", "upload_file">>

\* C23: the hosting calls of one deploy are a prefix of create site, register
\* manifest, upload; a failed call is the last one and deploy raises; a URL
\* is returned only after three successful calls; the bytes uploaded are the
\* bytes whose digest the manifest registered.
C23_ThreeStepsInOrder ==
    frame.fn = "deploy" =>
        LET ev == frame.events IN
        /\ Len(ev) <= 3
        /\ \A i \in 1..Len(ev) : ev[i].service = HostingSteps[i]
        /\ \A i \in 1..Len(ev) :
             ev[i].outcome # "ok" =>
                 /\ i = Len(ev)
                 /\ frame.pc = "done"
                 /\ frame.result.kind = "raised"
        /\ frame.result.kind = "returned" =>
             /\ Len(ev) = 3
             /\ \A i \in 1..3 : ev[i].outcome = "ok"
             /\ frame.result.value = frame.site_url
        /\ Len(ev) = 3 =>
             /\ ev[2].rcpt = Sha1(ev[3].rcpt)
             /\ ev[3].rcpt = Encode(frame.html)

\* C23 witness: a deploy returned its URL after the three calls.
C23_Witness ==
    /\ frame.fn = "deploy"
    /\ frame.pc = "done"
    /\ frame.result.kind = "returned"
    /\ Len(frame.events) = 3

\* C24 (as stated): the site names derived by any two invocations differ.
C24_UniqueSiteNames ==
    frame.fn = "deploy" =>
        LET all == IF frame.site_name = "" THEN frame.names
                   ELSE Append(frame.names, frame.site_name)
        IN \A i, j \in 1..Len(all) : i # j => all[i] # all[j]

\* ------------------------------------------------- missing credentials
\* The messages of the exceptions raised for a missing credential.
CredentialMessages ==
    {"NETLIFY_TOKEN not set in .env",
     "SMTP_USER and SMTP_PASSWORD must be set in .env"}

\* C27 (as stated): when deploy or send_email raised for a missing
\* credential, the except block stores Status ERROR for the row and the loop
\* goes on with the next selected row.
C27_MissingCredentialAbortsRowOnly ==
    [][(pc = "except" /\ exc.msg \in CredentialMessages) =>
          /\ pc' = "for"
          /\ idx' = idx + 1
          /\ Cell(grid', RowNum, "Status") = "ERROR"]_vars

\* ------------------------------------------------------------- backoff
\* C28 (as stated): once send_email has gone on from a transport-level
\* failure, the failure of attempt k is followed by a wait of 5 s, 10 s and
\* 20 s for k = 1, 2, 3.
C28_BackoffSchedule ==
    frame.fn = "send_email" =>
        \A i \in 1..Len(frame.events) :
            (/\ frame.events[i].kind = "remote"
             /\ frame.events[i].outcome \in TransportLevel
             /\ (i < Len(frame.events) \/ frame.pc = "done")) =>
                /\ i < Len(frame.events)
                /\ frame.events[i + 1] = Sleep(SendWaits[frame.events[i].attempt + 1])

\* ------------------------------------------------------ crawl and fallback
EventsOf(services) == SelectSeq(frame.events, LAMBDA e : e.service \in services)
CrawlStarted == \E i \in 1..Len(frame.events) : frame.events[i].outcome = "started"
CrawlCompleted == \E i \in 1..Len(frame.events) : frame.events[i].outcome = "completed"

\* The crawl ended with an exception or an explicit failed status.
CrawlRaised ==
    \E i \in 1..Len(frame.events) :
        \/ frame.events[i].service = "crawl" /\ frame.events[i].outcome # "started"
        \/ /\ frame.events[i].service = "crawl_status"
           /\ frame.events[i].outcome \in {"exception", "http_error", "bad_payload", "failed"}

\* The crawl ended with the timeout.
CrawlTimedOut ==
    /\ CrawlStarted
    /\ ~CrawlCompleted
    /\ ~CrawlRaised
    /\ frame.elapsed >= CRAWL_TIMEOUT
    /\ frame.pc \in {"fallback", "done"}

\* C29: the single-page fetch is made at most once and is the last call; a
\* finished scrape that made calls has made it exactly when the crawl ended
\* with an exception, a failed status or the timeout; scrape is about to make
\* it only after such an end; a completed crawl is the last call and its text
\* is returned; the crawl is started at most once.
C29_FallbackIffCrawlFailed ==
    frame.fn = "scrape" =>
        LET singles == EventsOf({"scrape"})
            n == Len(frame.events)
        IN /\ Len(singles) <= 1
           /\ Len(EventsOf({"crawl"})) <= 1
           /\ Len(singles) = 1 =>
                 /\ frame.events[n].service = "scrape"
                 /\ frame.pc = "done"
           /\ (frame.pc = "done" /\ n > 0) =>
                 (Len(singles) = 1 <=> (CrawlRaised \/ CrawlTimedOut))
           /\ frame.pc = "fallback" => (CrawlRaised \/ CrawlTimedOut)
           /\ CrawlCompleted =>
                 /\ singles = << >>
                 /\ frame.events[n].outcome = "completed"
                 /\ frame.pc = "done"
                 /\ frame.result \in
                      {Returned(CrawlText(pages, frame.max_chars)) : pages \in CrawlPages}

\* C29 witness: the second status poll answered failed and the single-page
\* fetch returned the page.
C29_Witness ==
    /\ frame.fn = "scrape"
    /\ frame.pc = "done"
    /\ frame.polls = 2
    /\ Outcomes(EventsOf({"crawl_status"})) = <<"scraping", "failed">>
    /\ LastEvent.service = "scrape"
    /\ LastEvent.outcome = "page"
    /\ frame.result.value # ""

\* What holds of the polls made so far: each status poll comes right after
\* a wait of the poll interval, there are at most 15, and none follows a
\* completed or failed status.
PollsWellFormed ==
    /\ frame.polls <= 15
    /\ \A i \in 1..Len(frame.events) :
         frame.events[i].service = "crawl_status" =>
             /\ i > 1
             /\ frame.events[i - 1] = Sleep(CRAWL_POLL_INTERVAL)
             /\ frame.events[i].outcome \in {"completed", "failed"} =>
                  \A j \in (i + 1)..Len(frame.events) :
                      frame.events[j].service # "crawl_status"

\* C30: the polls are well formed, no poll is started once 45 s have passed
\* since the crawl was started, and the poll loop is always left.
C30_PollLoopTerminates ==
    /\ [](frame.fn = "scrape" => PollsWellFormed)
    /\ [][frame'.polls > frame.polls => frame.elapsed < CRAWL_TIMEOUT]_vars
    /\ (frame.pc = "poll") ~> (frame.pc \in {"fallback", "done"})

\* C30 witness: 15 polls answered scraping, 3 s apart, and the loop ended
\* with the timeout.
C30_Witness ==
    /\ frame.fn = "scrape"
    /\ frame.pc = "fallback"
    /\ frame.polls = 15
    /\ frame.elapsed = 15 * CRAWL_POLL_INTERVAL
    /\ \A i \in 1..Len(frame.events) :
         frame.events[i].service = "crawl_status" => frame.events[i].outcome = "scraping"

\* ------------------------------------------------------------- slug shape
\* C31 (as stated): the slug of every name has only lower-case letters,
\* digits and hyphens, no two hyphens in a row, at most 40 characters, and no
\* hyphen at either end.
C31_SlugShape ==
    (frame.fn = "slugify" /\ frame.pc # "call") =>
        LET x == frame.slug IN
        /\ \A i \in 1..Len(x) : Ch(x, i) \in SlugChars \cup {"-"}
        /\ \A i \in 1..(Len(x) - 1) : SubSeq(x, i, i + 1) # "--"
        /\ Len(x) <= 40
        /\ x # "" => (Ch(x, 1) # "-" /\ Ch(x, Len(x)) # "-")

\* ------------------------------------------------------------- delivery
\* The attempts in which the relay accepted the message: sendmail returned.
Accepted == SelectSeq(frame.events, LAMBDA e : e.outcome \in {"sent", "close_error"})

\* C32 (as stated): in one send_email call the relay accepts the message at
\* most once.
C32_HandedOverAtMostOnce ==
    frame.fn = "send_email" => Len(Accepted) <= 1

\* ------------------------------------------------------ status and delivery
\* C33 (as stated): Email sent succesfully and Sent Date are written for a
\* row only after send_email returned for it, and a row whose send_email call
\* returned the sent confirmation does not end with Status ERROR or SENDING.
C33_StatusAgreesWithDelivery ==
    /\ \A i \in 1..Len(writeLog) :
         (\/ StatusOf(writeLog[i]) = "Email sent succesfully"
          \/ HasKey(writeLog[i].updates, "Sent Date")) => CalledOk("send")
    /\ (RowEnded /\ CalledOk("send")) =>
         Cell(grid, LogRow["_row"], "Status") \notin {"ERROR", "SENDING"}

\* ------------------------------------------------------------- end of run
\* The Status values a finished row has.
FinalStatuses == {"Deployed", "Email Draft Written", "Email sent succesfully", "ERROR"}

\* C34: when run() has returned normally, the Status cell of every row it
\* selected holds Deployed, Email Draft Written, Email sent succesfully or
\* ERROR.
C34_NoRowLeftInProgress ==
    pc = "returned" =>
        \A i \in 1..Len(rows) : Cell(grid, rows[i]["_row"], "Status") \in FinalStatuses

\* C34 witness: run() returned after two rows, the first ended with ERROR and
\* the second with Deployed.
C34_Witness ==
    /\ pc = "returned"
    /\ Len(rows) = 2
    /\ Cell(grid, rows[1]["_row"], "Status") = "ERROR"
    /\ Cell(grid, rows[2]["_row"], "Status") = "Deployed"

====
